---------------------------- MODULE Spec2Model ----------------------------
(***************************************************************************)
(* The ggez virtual filesystem facade (src/filesystem.rs) over the overlay *)
(* engine of crate::vfs.  The facade is translated from its source; the    *)
(* overlay engine and its two backends (crate::vfs) and the configuration  *)
(* codec (crate::conf) are modelled from the design document.              *)
(***************************************************************************)
EXTENDS Integers, Sequences, FiniteSets, TLC

\* -------------------------------------------------------------- bounds
\* Longest overlay (number of mounted backends) explored.
MaxBackends == 2
\* Longest file content, in bytes, explored.
MaxLen == 1

\* -------------------------------------------------------------- values
Byte == {1, 2}

RECURSIVE SeqsUpTo(_, _)
SeqsUpTo(S, n) ==
    IF n = 0 THEN {<<>>}
    ELSE LET shorter == SeqsUpTo(S, n - 1)
         IN  shorter \cup {Append(s, x) : s \in {t \in shorter : Len(t) = n - 1}, x \in S}

Contents == SeqsUpTo(Byte, MaxLen)

\* The storage keys of a backend: the component lists of the virtual paths
\* "/", "/conf.toml", "/d" and "/d/f".
Keys == {<<>>, <<"conf.toml">>, <<"d">>, <<"d", "f">>}

\* A virtual path as the caller presents it: its components and whether it
\* carries the leading '/'.
VPath(abs, comps) == [abs |-> abs, comps |-> comps]

\* const CONFIG_NAME: &str = "/conf.toml";
CONFIG_NAME == VPath(TRUE, <<"conf.toml">>)

\* The paths callers present: the four absolute ones and the relative
\* "conf.toml" (no leading '/').
Paths == {VPath(TRUE, k) : k \in Keys} \cup {VPath(FALSE, <<"conf.toml">>)}

\* -------------------------------------------------------------- nodes
Absent == [t |-> "absent", data |-> <<>>]
Dir == [t |-> "dir", data |-> <<>>]
FileOf(data) == [t |-> "file", data |-> data]

Parent(k) == SubSeq(k, 1, Len(k) - 1)

IsPrefix(a, k) == Len(a) <= Len(k) /\ SubSeq(k, 1, Len(a)) = a

\* k itself and everything beneath it
Subtree(k) == {q \in Keys : IsPrefix(k, q)}

ChildrenOf(k) == {q \in Keys : Len(q) = Len(k) + 1 /\ IsPrefix(k, q)}

\* -------------------------------------------------------------- results
\* A result as the caller sees it: Ok or Err(kind); root is the overlay
\* position that served the call (0 when none did), data the bytes or the
\* listing, val a scalar (a boolean answer, a configuration, a message).
Res(ok, err, root, data, val) ==
    [ok |-> ok, err |-> err, root |-> root, data |-> data, val |-> val]

Ok(root, data, val) == Res(TRUE, "none", root, data, val)

Err(kind) == Res(FALSE, kind, 0, <<>>, "none")

\* -------------------------------------------------------------- options
\* OpenOptions: the five flags.
Opts(r, w, c, a, t) ==
    [read |-> r, write |-> w, create |-> c, append |-> a, truncate |-> t]

OptRead == Opts(TRUE, FALSE, FALSE, FALSE, FALSE)
OptCreateTrunc == Opts(FALSE, TRUE, TRUE, FALSE, TRUE)
OptCreate == Opts(FALSE, TRUE, TRUE, FALSE, FALSE)
OptAppend == Opts(FALSE, TRUE, FALSE, TRUE, FALSE)
OptTruncate == Opts(FALSE, TRUE, FALSE, FALSE, TRUE)
OptNone == Opts(FALSE, FALSE, FALSE, FALSE, FALSE)

OptionSets == {OptCreate, OptAppend, OptTruncate, OptNone}

\* the options imply mutation
Mutating(o) == o.write \/ o.create \/ o.append \/ o.truncate


\* -------------------------------------------------------------- backends
\* A backend: its kind ("phys" directory-backed, "zip" archive-backed), its
\* readonly flag and the tree under its root.
Backend(kind, readonly, nodes) ==
    [kind |-> kind, readonly |-> readonly, nodes |-> nodes]

\* vfs::PhysicalFS::new(root, readonly)
PhysicalFS(nodes, readonly) == Backend("phys", readonly, nodes)

\* vfs::ZipFS::new / from_read: always readonly
ZipFS(nodes) == Backend("zip", TRUE, nodes)

\* The outcome of a backend or overlay call: the result and the storage
\* after it (a backend for backend calls, the overlay for overlay calls).
Out(res, fs) == [res |-> res, fs |-> fs]

\* A presented path maps onto the root only if it is virtual-absolute; the
\* empty path denotes the root itself.
Resolves(p) == p.abs \/ p.comps = <<>>

NodeAt(b, p) == IF Resolves(p) THEN b.nodes[p.comps] ELSE Absent

\* the directory that would hold key k exists in the backend (a missing
\* root is brought back only by mkdir, which makes every missing ancestor)
ParentIsDir(b, k) == k # <<>> /\ b.nodes[Parent(k)].t = "dir"

WithNode(b, k, node) == [b EXCEPT !.nodes[k] = node]

\* open_options(path, options) on one backend.  The handle it returns is
\* described by the result: data is the file's content after the open.
B_open_options(b, p, o) ==
    LET n == NodeAt(b, p)
        k == p.comps
    IN  IF b.readonly /\ Mutating(o) THEN Out(Err("PermissionDenied"), b)
        ELSE IF ~(o.read \/ o.write \/ o.append) THEN Out(Err("InvalidInput"), b)
        ELSE IF ~Resolves(p) THEN Out(Err("ResourceNotFound"), b)
        ELSE IF n.t = "dir"
             THEN Out(Err(IF Mutating(o) THEN "IOFailure" ELSE "ResourceNotFound"), b)
        ELSE IF n.t = "absent"
             THEN IF o.create /\ ParentIsDir(b, k)
                  THEN Out(Ok(0, <<>>, "none"), WithNode(b, k, FileOf(<<>>)))
                  ELSE Out(Err("ResourceNotFound"), b)
        ELSE IF o.truncate
             THEN Out(Ok(0, <<>>, "none"), WithNode(b, k, FileOf(<<>>)))
        ELSE Out(Ok(0, n.data, "none"), b)

\* open(path): reading only
B_open(b, p) == B_open_options(b, p, OptRead)

\* create(path): open_options with {write, create, truncate}
B_create(b, p) == B_open_options(b, p, OptCreateTrunc)

\* mkdir(path): the path and all its missing ancestors
B_mkdir(b, p) ==
    LET k == p.comps
        ups == {a \in Keys : IsPrefix(a, k)}
    IN  IF b.readonly THEN Out(Err("PermissionDenied"), b)
        ELSE IF ~Resolves(p) THEN Out(Err("ResourceNotFound"), b)
        ELSE IF b.nodes[k].t = "file" THEN Out(Err("AlreadyExists"), b)
        ELSE IF \E a \in ups : b.nodes[a].t = "file" THEN Out(Err("IOFailure"), b)
        ELSE Out(Ok(0, <<>>, "none"),
                 [b EXCEPT !.nodes = [q \in Keys |-> IF q \in ups THEN Dir ELSE @[q]]])

\* rm(path): exactly one file or one empty directory
B_rm(b, p) ==
    LET n == NodeAt(b, p)
        k == p.comps
    IN  IF b.readonly THEN Out(Err("PermissionDenied"), b)
        ELSE IF n.t = "absent" THEN Out(Err("ResourceNotFound"), b)
        ELSE IF n.t = "dir" /\ \E c \in ChildrenOf(k) : b.nodes[c].t # "absent"
             THEN Out(Err("IOFailure"), b)
        ELSE Out(Ok(0, <<>>, "none"), WithNode(b, k, Absent))

\* rmrf(path): a file, or a directory and everything beneath it
B_rmrf(b, p) ==
    LET n == NodeAt(b, p)
        k == p.comps
    IN  IF b.readonly THEN Out(Err("PermissionDenied"), b)
        ELSE IF n.t = "absent" THEN Out(Err("ResourceNotFound"), b)
        ELSE Out(Ok(0, <<>>, "none"),
                 [b EXCEPT !.nodes = [q \in Keys |-> IF q \in Subtree(k) THEN Absent ELSE @[q]]])

\* exists(path): never fails
B_exists(b, p) == NodeAt(b, p).t # "absent"

\* metadata(path): {is-file, is-directory, size}
Metadata(n) == [is_file |-> n.t = "file", is_dir |-> n.t = "dir", len |-> Len(n.data)]

B_metadata(b, p) ==
    LET n == NodeAt(b, p)
    IN  IF n.t = "absent" THEN Out(Err("ResourceNotFound"), b)
        ELSE Out(Ok(0, <<>>, Metadata(n)), b)

RECURSIVE Listing(_)
\* some enumeration of a set of keys, as absolute virtual paths
Listing(ks) ==
    IF ks = {} THEN <<>>
    ELSE LET k == CHOOSE x \in ks : TRUE
         IN  <<VPath(TRUE, k)>> \o Listing(ks \ {k})

\* read_dir(path): one entry per direct child
B_read_dir(b, p) ==
    LET n == NodeAt(b, p)
    IN  IF n.t # "dir" THEN Out(Err("ResourceNotFound"), b)
        ELSE Out(Ok(0, Listing({c \in ChildrenOf(p.comps) : b.nodes[c].t # "absent"}), "none"), b)

\* -------------------------------------------------------------- overlay
\* vfs::OverlayFS: an ordered sequence of backends, front first.
OverlayFS_new == <<>>

push_back(ov, b) == Append(ov, b)

push_front(ov, b) == <<b>> \o ov

RECURSIVE FirstDecisive(_, _)
\* Front to back over the backends' answers: the first position that did
\* not answer "this backend does not have it"; 0 when every one did.
FirstDecisive(rs, i) ==
    IF i > Len(rs) THEN 0
    ELSE IF rs[i].ok \/ rs[i].err # "ResourceNotFound" THEN i
    ELSE FirstDecisive(rs, i + 1)

\* Read-style resolution over the backends' answers rs.
ReadStyle(ov, rs) ==
    LET i == FirstDecisive(rs, 1)
    IN  IF i = 0 THEN Out(Err("ResourceNotFound"), ov)
        ELSE Out([rs[i] EXCEPT !.root = IF rs[i].ok THEN i ELSE 0], ov)

RECURSIVE FirstEligible(_, _)
\* Front to back: the first position whose flag is set; 0 when none is.
FirstEligible(flags, i) ==
    IF i > Len(flags) THEN 0
    ELSE IF flags[i] THEN i
    ELSE FirstEligible(flags, i + 1)

\* Write-style resolution: the operation is performed on the first eligible
\* backend; outs[i] is what it does on backend i.  With no eligible backend
\* the call is refused: for want of write capability when a readonly backend
\* was passed over, else because the path resolves nowhere.
WriteStyle(ov, flags, outs) ==
    LET i == FirstEligible(flags, 1)
    IN  IF i = 0
        THEN Out(Err(IF \E j \in 1..Len(ov) : ov[j].readonly
                     THEN "PermissionDenied" ELSE "ResourceNotFound"), ov)
        ELSE Out([outs[i].res EXCEPT !.root = IF outs[i].res.ok THEN i ELSE 0],
                 [ov EXCEPT ![i] = outs[i].fs])

Writable(ov) == [i \in 1..Len(ov) |-> ~ov[i].readonly]

\* writable and currently containing the path (removal)
Removable(ov, p) == [i \in 1..Len(ov) |-> ~ov[i].readonly /\ B_exists(ov[i], p)]

O_open_options(ov, p, o) ==
    IF Mutating(o)
    THEN WriteStyle(ov, Writable(ov), [i \in 1..Len(ov) |-> B_open_options(ov[i], p, o)])
    ELSE ReadStyle(ov, [i \in 1..Len(ov) |-> B_open_options(ov[i], p, o).res])

O_open(ov, p) == ReadStyle(ov, [i \in 1..Len(ov) |-> B_open(ov[i], p).res])

O_create(ov, p) ==
    WriteStyle(ov, Writable(ov), [i \in 1..Len(ov) |-> B_create(ov[i], p)])

O_mkdir(ov, p) ==
    WriteStyle(ov, Writable(ov), [i \in 1..Len(ov) |-> B_mkdir(ov[i], p)])

O_rm(ov, p) ==
    WriteStyle(ov, Removable(ov, p), [i \in 1..Len(ov) |-> B_rm(ov[i], p)])

O_rmrf(ov, p) ==
    WriteStyle(ov, Removable(ov, p), [i \in 1..Len(ov) |-> B_rmrf(ov[i], p)])

RECURSIVE O_exists_from(_, _, _)
O_exists_from(ov, p, i) ==
    IF i > Len(ov) THEN FALSE
    ELSE IF B_exists(ov[i], p) THEN TRUE
    ELSE O_exists_from(ov, p, i + 1)

O_exists(ov, p) == O_exists_from(ov, p, 1)

O_metadata(ov, p) == ReadStyle(ov, [i \in 1..Len(ov) |-> B_metadata(ov[i], p).res])

O_read_dir(ov, p) == ReadStyle(ov, [i \in 1..Len(ov) |-> B_read_dir(ov[i], p).res])

\* -------------------------------------------------------------- conf codec
\* The configurations callers save and load.
Confs == {"windowed", "fullscreen"}

\* conf::Conf::to_toml_file: the bytes written for a configuration
ToToml(c) == IF c = "windowed" THEN <<1>> ELSE <<2>>

\* conf::Conf::from_toml_file: the configuration read back, or a parse error
FromToml(bytes) ==
    IF bytes = <<1>> THEN Ok(0, <<>>, "windowed")
    ELSE IF bytes = <<2>> THEN Ok(0, <<>>, "fullscreen")
    ELSE Err("ConfigParseError")

\* -------------------------------------------------------------- facade
RECURSIVE Rev(_)
Rev(q) == IF q = <<>> THEN <<>> ELSE Append(Rev(Tail(q)), Head(q))

\* open, were the backends searched back to front
open_lastMatch(ov, p) ==
    LET r == O_open(Rev(ov), p)
    IN  Out([r.res EXCEPT !.root = IF r.res.ok THEN Len(ov) + 1 - @ ELSE 0], ov)

\* open, were a directory opened as an empty file
open_dirReadsEmpty(ov, p) ==
    LET r == O_open(ov, p)
        m == O_metadata(ov, p).res
    IN  IF ~r.res.ok /\ m.ok /\ m.val.is_dir THEN Out(Ok(m.root, <<>>, "none"), ov) ELSE r

\* Filesystem::open
open(ov, p) == O_open(ov, p)

\* open_options, were the vfs error passed on unwrapped
open_options_unwrapped(ov, p, o) == O_open_options(ov, p, o)

\* Filesystem::open_options: every failure is wrapped as ResourceLoadError,
\* the vfs error kept as its text (val)
open_options(ov, p, o) ==
    LET r == O_open_options(ov, p, o)
    IN  IF r.res.ok THEN r
        ELSE Out(Res(FALSE, "ResourceLoadError", 0, <<>>, r.res.err), r.fs)

\* create, were the last writable backend the one written to
create_lastWritable(ov, p) ==
    LET w == {i \in 1..Len(ov) : ~ov[i].readonly}
    IN  WriteStyle(ov, [i \in 1..Len(ov) |-> i \in w /\ \A j \in w : j <= i],
                   [i \in 1..Len(ov) |-> B_create(ov[i], p)])

\* Filesystem::create
create(ov, p) == O_create(ov, p)

\* Filesystem::create_dir
create_dir(ov, p) == O_mkdir(ov, p)

\* delete, were the recursive removal called
delete_recursive(ov, p) == O_rmrf(ov, p)

\* Filesystem::delete
delete(ov, p) == O_rm(ov, p)

\* delete_dir, were only the directory's own entry removed
delete_dir_shallow(ov, p) ==
    WriteStyle(ov, Removable(ov, p),
               [i \in 1..Len(ov) |-> Out(Ok(0, <<>>, "none"), WithNode(ov[i], p.comps, Absent))])

\* Filesystem::delete_dir
delete_dir(ov, p) == O_rmrf(ov, p)

\* Filesystem::exists
exists(ov, p) == O_exists(ov, p)

\* is_file, were a failed metadata call answered with true
is_file_unwrapTrue(ov, p) ==
    LET m == O_metadata(ov, p).res
    IN  IF m.ok THEN m.val.is_file ELSE TRUE

\* Filesystem::is_file: metadata(path).map(|m| m.is_file()).unwrap_or(false)
is_file(ov, p) ==
    LET m == O_metadata(ov, p).res
    IN  IF m.ok THEN m.val.is_file ELSE FALSE

\* Filesystem::is_dir: metadata(path).map(|m| m.is_dir()).unwrap_or(false)
is_dir(ov, p) ==
    LET m == O_metadata(ov, p).res
    IN  IF m.ok THEN m.val.is_dir ELSE FALSE

RECURSIVE Merged(_, _)
Merged(rs, i) ==
    IF i > Len(rs) THEN <<>>
    ELSE (IF rs[i].ok THEN rs[i].data ELSE <<>>) \o Merged(rs, i + 1)

\* read_dir, were the listings of all backends chained
read_dir_merged(ov, p) ==
    LET rs == [i \in 1..Len(ov) |-> B_read_dir(ov[i], p).res]
        first == ReadStyle(ov, rs)
    IN  IF first.res.ok THEN Out([first.res EXCEPT !.data = Merged(rs, 1)], ov) ELSE first

\* Filesystem::read_dir
read_dir(ov, p) == O_read_dir(ov, p)

\* File::write, were the bytes dropped
FileWriteAt_lost(ov, h, bytes) == ov

\* io::Write for File: the bytes land at the handle's cursor; a cursor past
\* the end of a file truncated meanwhile leaves a gap of zero bytes.  A
\* handle whose file was removed writes to the unlinked file, which no path
\* names any more.
FileWriteAt(ov, h, bytes) ==
    LET n == ov[h.root].nodes[h.key]
        at == h.pos
        size == IF at + Len(bytes) > Len(n.data) THEN at + Len(bytes) ELSE Len(n.data)
        new == [i \in 1..size |->
                   IF i > at /\ i <= at + Len(bytes) THEN bytes[i - at]
                   ELSE IF i <= Len(n.data) THEN n.data[i]
                   ELSE 0]
    IN  IF n.t = "file"
        THEN [ov EXCEPT ![h.root].nodes[h.key] = FileOf(new)]
        ELSE ov

\* read_config, were the file opened without the is_file check
read_config_unchecked(ov) ==
    LET f == open(ov, CONFIG_NAME).res
    IN  IF ~f.ok THEN Out(f, ov)
        ELSE LET c == FromToml(f.data)
             IN  Out(IF c.ok THEN [c EXCEPT !.root = f.root] ELSE c, ov)

\* Filesystem::read_config
read_config(ov) ==
    IF is_file(ov, CONFIG_NAME)
    THEN LET f == open(ov, CONFIG_NAME).res
         IN  IF ~f.ok THEN Out(f, ov)
             ELSE LET c == FromToml(f.data)
                  IN  Out(IF c.ok THEN [c EXCEPT !.root = f.root] ELSE c, ov)
    ELSE Out(Res(FALSE, "ConfigError", 0, <<>>, "Config file not found"), ov)

\* write_config, were the configuration never written to the new file
write_config_unwritten(ov, c) ==
    LET f == create(ov, CONFIG_NAME)
    IN  IF ~f.res.ok THEN f
        ELSE IF is_file(f.fs, CONFIG_NAME)
             THEN Out(Ok(f.res.root, <<>>, "none"), f.fs)
             ELSE Out(Res(FALSE, "ConfigError", 0, <<>>, "Failed to write config file"), f.fs)

\* Filesystem::write_config
write_config(ov, c) ==
    LET f == create(ov, CONFIG_NAME)
        h == [root |-> f.res.root, key |-> CONFIG_NAME.comps, pos |-> 0]
        written == FileWriteAt(f.fs, h, ToToml(c))
    IN  IF ~f.res.ok THEN f
        ELSE IF is_file(written, CONFIG_NAME)
             THEN Out(Ok(f.res.root, <<>>, "none"), written)
             ELSE Out(Res(FALSE, "ConfigError", 0, <<>>, "Failed to write config file"),
                      written)

\* vfs::ZipFS::from_read(reader): the archive's index, or a failure when the
\* bytes are no archive
ZipFS_from_read(reader) ==
    IF reader.valid THEN Out(Ok(0, <<>>, "none"), ZipFS(reader.nodes))
    ELSE Out(Err("IOFailure"), ZipFS(reader.nodes))

\* mount, were the new backend put in front of the others
mount_front(ov, nodes, readonly) ==
    Out(Ok(0, <<>>, "none"), push_front(ov, PhysicalFS(nodes, readonly)))

\* Filesystem::mount: nodes is the tree found at the mounted path
mount(ov, nodes, readonly) ==
    Out(Ok(0, <<>>, "none"), push_back(ov, PhysicalFS(nodes, readonly)))

\* add_zip_file, were the archive pushed before its bytes were checked
add_zip_file_eager(ov, reader) ==
    LET z == ZipFS_from_read(reader)
    IN  Out(z.res, push_back(ov, z.fs))

\* Filesystem::add_zip_file
add_zip_file(ov, reader) ==
    LET z == ZipFS_from_read(reader)
    IN  IF ~z.res.ok THEN Out(z.res, ov)
        ELSE Out(Ok(0, <<>>, "none"), push_back(ov, z.fs))

\* -------------------------------------------------------------- clones
\* A Filesystem value: vfs is the Arc, that is, which overlay of the heap it
\* points to; the four root paths are held by value.
Filesystem(arc, resources_dir, zip_dir, user_config_dir, user_data_dir) ==
    [vfs |-> arc, resources_dir |-> resources_dir, zip_dir |-> zip_dir,
     user_config_dir |-> user_config_dir, user_data_dir |-> user_data_dir]

\* clone, were the overlay copied into an Arc of its own
clone_deep(f, heap) == Out([f EXCEPT !.vfs = Len(heap) + 1], Append(heap, heap[f.vfs]))

\* InternalClone::clone for Filesystem: self.vfs.clone() is Arc::clone,
\* which points to the same overlay; the paths are cloned
clone(f, heap) ==
    Out(Filesystem(f.vfs, f.resources_dir, f.zip_dir, f.user_config_dir, f.user_data_dir),
        heap)

\* -------------------------------------------------------------- timer
\* std::time::Duration counts nanoseconds; an Instant is taken as the
\* nanoseconds since the TimeContext was made.
NANOS_PER_MILLI == 1000000

NANOS_PER_SEC == 1000000000

from_millis(ms) == ms * NANOS_PER_MILLI

\* fps_as_duration: Duration::from_secs_f64(1.0 / f64::from(fps)).  For the
\* frame rates explored 1/fps is a whole number of nanoseconds, so the
\* conversion loses nothing.
fps_as_duration(fps) == NANOS_PER_SEC \div fps

\* Slots of the frame-time log explored (the constant is 200 in the source).
MaxLogFrames == 3

\* const TIME_LOG_FRAMES: usize = 200, scaled to the slots explored
TIME_LOG_FRAMES == MaxLogFrames

\* Most ticks explored.
MaxTicks == 5

RECURSIVE SumSeq(_)
SumSeq(q) == IF q = <<>> THEN 0 ELSE Head(q) + SumSeq(Tail(q))

\* LogBuffer::new(size, init_val); contents[i + 1] is slot i of the Vec
LogBuffer_new(size, init_val) ==
    [head |-> 0, size |-> size, samples |-> 1, contents |-> [i \in 1..size |-> init_val]]

\* push, were head left where it is
LogBuffer_push_in_place(lb, item) ==
    [head |-> lb.head,
     size |-> IF lb.size + 1 < Len(lb.contents) THEN lb.size + 1 ELSE Len(lb.contents),
     samples |-> lb.samples + 1,
     contents |-> [lb.contents EXCEPT ![lb.head + 1] = item]]

\* LogBuffer::push
LogBuffer_push(lb, item) ==
    LET head == (lb.head + 1) % Len(lb.contents)
    IN  [head |-> head,
         size |-> IF lb.size + 1 < Len(lb.contents) THEN lb.size + 1 ELSE Len(lb.contents),
         samples |-> lb.samples + 1,
         contents |-> [lb.contents EXCEPT ![head + 1] = item]]

\* LogBuffer::contents
LogBuffer_contents(lb) ==
    IF lb.samples > lb.size THEN lb.contents ELSE SubSeq(lb.contents, 1, lb.samples)

\* latest, were the slot after head (the oldest item) returned
LogBuffer_latest_oldest(lb) == lb.contents[((lb.head + 1) % Len(lb.contents)) + 1]

\* LogBuffer::latest
LogBuffer_latest(lb) == lb.contents[lb.head + 1]

\* TimeContext::new at instant now
TimeContext_new(now) ==
    [init_instant |-> now,
     last_instant |-> now,
     frame_durations |-> LogBuffer_new(TIME_LOG_FRAMES, from_millis(16)),
     residual_update_dt |-> 0,
     frame_count |-> 0]

\* TimeContext::delta
delta(tc) == LogBuffer_latest(tc.frame_durations)

\* TimeContext::average_delta: Duration / u32 drops the fraction of a
\* nanosecond
average_delta(tc) ==
    LET sum == SumSeq(LogBuffer_contents(tc.frame_durations))
    IN  IF tc.frame_durations.samples > tc.frame_durations.size
        THEN sum \div tc.frame_durations.size
        ELSE sum \div tc.frame_durations.samples

\* TimeContext::ticks
ticks(tc) == tc.frame_count

\* check_update_time, were the whole residual consumed by a true answer
check_update_time_reset(tc, target_fps) ==
    LET target_dt == fps_as_duration(target_fps)
    IN  IF tc.residual_update_dt > target_dt
        THEN Out(Ok(0, <<>>, TRUE), [tc EXCEPT !.residual_update_dt = 0])
        ELSE Out(Ok(0, <<>>, FALSE), tc)

\* TimeContext::check_update_time
check_update_time(tc, target_fps) ==
    LET target_dt == fps_as_duration(target_fps)
    IN  IF tc.residual_update_dt > target_dt
        THEN Out(Ok(0, <<>>, TRUE), [tc EXCEPT !.residual_update_dt = @ - target_dt])
        ELSE Out(Ok(0, <<>>, FALSE), tc)

\* TimeContext::remaining_update_time
remaining_update_time(tc) == tc.residual_update_dt

\* tick, were the residual set to the last frame's time rather than raised
\* by it
tick_restarting(tc, now) ==
    LET time_since_last == now - tc.last_instant
    IN  [tc EXCEPT !.frame_durations = LogBuffer_push(@, time_since_last),
                   !.last_instant = now,
                   !.frame_count = @ + 1,
                   !.residual_update_dt = time_since_last]

\* TimeContext::tick at instant now
tick(tc, now) ==
    LET time_since_last == now - tc.last_instant
    IN  [tc EXCEPT !.frame_durations = LogBuffer_push(@, time_since_last),
                   !.last_instant = now,
                   !.frame_count = @ + 1,
                   !.residual_update_dt = @ + time_since_last]

\* -------------------------------------------------------------- state
VARIABLES
    vfs,      \* Filesystem.vfs: the overlay shared behind the lock
    handle,   \* the caller's open write handle (File), NoHandle when none
    last,     \* the last call: operation, arguments, result, and what the
              \* overlay held for its path just before it
    trail,    \* what the calls since the last unrelated one amount to
    env,      \* what Filesystem::new finds around the executable
    lock,     \* the Mutex around the overlay: the thread holding it, 0 if none
    threads,  \* the threads sharing the Filesystem: where each is in its call
    time,     \* Context.time: the TimeContext
    fss,      \* the Filesystem values in existence: an original and its clones
    arcs,     \* the overlays those values point to (Arc<Mutex<OverlayFS>>)
    log       \* a LogBuffer on its own

\* the state a single caller's facade calls leave alone
aside == <<env, lock, threads, time, fss, arcs, log>>

vars == <<vfs, handle, last, trail, env, lock, threads, time, fss, arcs, log>>

\* the timer has just been made and nothing has ticked
NoTimer == time = TimeContext_new(0)

\* no Filesystem value is followed
NoClones == fss = <<>> /\ arcs = <<>>

\* no LogBuffer is followed on its own
NoLog == log = LogBuffer_new(1, 0)

\* -------------------------------------------------------------- threads
\* Most threads sharing one Filesystem.
MaxThreads == 2

Threads == 1..MaxThreads

\* A thread in a facade call: pc is "idle" (in no call), "wait" (about to
\* take the lock), "pushing" (mount: lock taken and the list grown, the new
\* slot not yet written) or "ran" (lock taken and the overlay call done, the
\* guard not yet dropped); from is the overlay as mounted when the call began and
\* seen the overlay the call worked on.
Thread(pc, op, path, arg, res, from, seen) ==
    [pc |-> pc, op |-> op, path |-> path, arg |-> arg, res |-> res,
     from |-> from, seen |-> seen]

IdleThread == Thread("idle", "none", VPath(TRUE, <<"conf.toml">>), "none", Err("none"), <<>>, <<>>)

\* no thread is in a call and the lock is free
NoThreads == lock = 0 /\ threads = [t \in Threads |-> IdleThread]

NoHandle == [root |-> 0, key |-> <<>>, pos |-> 0]

\* kind: "session" (create, then only writes through its handle), "dropped"
\* (that handle dropped), "written" (write_config returned Ok), "deleted"
\* (then delete("/conf.toml") returned Ok); root is the backend written to,
\* data the bytes written, val the configuration saved, had the positions
\* that contained the path before the first of these calls.
Trail(kind, path, root, data, val, had) ==
    [kind |-> kind, path |-> path, root |-> root, data |-> data, val |-> val, had |-> had]

NoTrail == Trail("none", CONFIG_NAME, 0, <<>>, "none", {})

\* the overlay positions that contain p
Holders(ov, p) == {i \in 1..Len(ov) : B_exists(ov[i], p)}

\* the absolute paths at or beneath p that the overlay reports as existing
Beneath(ov, p) ==
    {q \in Paths : q.abs /\ Resolves(p) /\ IsPrefix(p.comps, q.comps) /\ exists(ov, q)}

Call(op, path, arg, res, had, desc, ctx) ==
    [op |-> op, path |-> path, arg |-> arg, res |-> res,
     had |-> had, desc |-> desc, ctx |-> ctx]

NoCall == Call("none", CONFIG_NAME, "none", Err("none"), {}, {}, NoTrail)

\* The trees the initial backends are drawn from.
TreeA ==
    [k \in Keys |->
        IF k = <<"conf.toml">> THEN FileOf(<<1>>)
        ELSE IF k = <<"d", "f">> THEN FileOf(<<2>>)
        ELSE Dir]

TreeB ==
    [k \in Keys |->
        IF k = <<>> THEN Dir
        ELSE IF k = <<"conf.toml">> THEN FileOf(<<2>>)
        ELSE IF k = <<"d">> THEN FileOf(<<1>>)
        ELSE Absent]

\* The backends an overlay is built from: a writable and a readonly
\* directory store over the same tree and an archive over another.  Emptier
\* writable stores are reached from these by deleting.
Seeds == {PhysicalFS(TreeA, FALSE), PhysicalFS(TreeA, TRUE), ZipFS(TreeB)}

\* A directory store holding nothing but its root.
TreeEmpty == [k \in Keys |-> IF k = <<>> THEN Dir ELSE Absent]

\* What Filesystem::new finds around the executable: the tree at
\* <exe directory>/resources, the file resources.zip (whether it exists,
\* whether it is an archive, the tree it packs), whether the platform's
\* project directories resolve (ProjectDirs::from), and the trees at the
\* user-data and user-config directories.
Env(resources, zip, dirs, user_data, user_config) ==
    [resources |-> resources, zip |-> zip, dirs |-> dirs,
     user_data |-> user_data, user_config |-> user_config]

ZipFile(exists_, valid) == [exists |-> exists_, valid |-> valid, nodes |-> TreeB]

ZipFiles == {ZipFile(FALSE, FALSE), ZipFile(TRUE, TRUE), ZipFile(TRUE, FALSE)}

Envs ==
    {Env(r, z, d, TreeEmpty, c) :
        r \in {TreeA, TreeEmpty}, z \in ZipFiles, d \in BOOLEAN, c \in {TreeA, TreeEmpty}}

NoEnv == Env(TreeEmpty, ZipFile(FALSE, FALSE), FALSE, TreeEmpty, TreeEmpty)

\* vfs::ZipFS::new(path): the archive file opened and indexed
ZipFS_new(file) == ZipFS_from_read(file)

\* Filesystem::_new, were the archive searched before the resources
\* directory
new_zipFirst(e) ==
    LET z == ZipFS_new(e.zip)
        o1 == IF e.zip.exists THEN push_back(OverlayFS_new, z.fs) ELSE OverlayFS_new
        o2 == push_back(o1, PhysicalFS(e.resources, TRUE))
        o3 == IF e.dirs
              THEN push_back(push_back(o2, PhysicalFS(e.user_data, TRUE)),
                             PhysicalFS(e.user_config, FALSE))
              ELSE o2
    IN  IF e.zip.exists /\ ~z.res.ok THEN Out(z.res, OverlayFS_new)
        ELSE Out(Ok(0, <<>>, "none"), o3)

\* Filesystem::_new, were the resources directory mounted read-write
new_resourcesWritable(e) ==
    LET z == ZipFS_new(e.zip)
        o1 == push_back(OverlayFS_new, PhysicalFS(e.resources, FALSE))
        o2 == IF e.zip.exists THEN push_back(o1, z.fs) ELSE o1
        o3 == IF e.dirs
              THEN push_back(push_back(o2, PhysicalFS(e.user_data, TRUE)),
                             PhysicalFS(e.user_config, FALSE))
              ELSE o2
    IN  IF e.zip.exists /\ ~z.res.ok THEN Out(z.res, OverlayFS_new)
        ELSE Out(Ok(0, <<>>, "none"), o3)

\* Filesystem::_new, were the user-config directory mounted readonly
new_configReadonly(e) ==
    LET z == ZipFS_new(e.zip)
        o1 == push_back(OverlayFS_new, PhysicalFS(e.resources, TRUE))
        o2 == IF e.zip.exists THEN push_back(o1, z.fs) ELSE o1
        o3 == IF e.dirs
              THEN push_back(push_back(o2, PhysicalFS(e.user_data, TRUE)),
                             PhysicalFS(e.user_config, TRUE))
              ELSE o2
    IN  IF e.zip.exists /\ ~z.res.ok THEN Out(z.res, OverlayFS_new)
        ELSE Out(Ok(0, <<>>, "none"), o3)

\* Filesystem::_new: the resources directory (readonly), the archive if the
\* file exists (a file that is no archive fails the construction), and, if
\* the project directories resolve, the user-data directory (readonly) and
\* the user-config directory (read-write)
new(e) ==
    LET z == ZipFS_new(e.zip)
        o1 == push_back(OverlayFS_new, PhysicalFS(e.resources, TRUE))
        o2 == IF e.zip.exists THEN push_back(o1, z.fs) ELSE o1
        o3 == IF e.dirs
              THEN push_back(push_back(o2, PhysicalFS(e.user_data, TRUE)),
                             PhysicalFS(e.user_config, FALSE))
              ELSE o2
    IN  IF e.zip.exists /\ ~z.res.ok THEN Out(z.res, OverlayFS_new)
        ELSE Out(Ok(0, <<>>, "none"), o3)

RECURSIVE Overlays(_)
\* every overlay of at most n seed backends
Overlays(n) ==
    IF n = 0 THEN {OverlayFS_new}
    ELSE LET shorter == Overlays(n - 1)
         IN  shorter \cup {push_back(ov, b) : ov \in {o \in shorter : Len(o) = n - 1}, b \in Seeds}

Init ==
    /\ vfs \in Overlays(MaxBackends)
    /\ handle = NoHandle
    /\ last = NoCall
    /\ trail = NoTrail
    /\ env = NoEnv
    /\ NoThreads
    /\ NoTimer
    /\ NoClones
    /\ NoLog

\* -------------------------------------------------------------- actions
\* fs.open(p), then read_to_end on the handle
Open(p) ==
    /\ last = NoCall
    /\ UNCHANGED aside
    /\ handle = NoHandle
    /\ last' = Call("open", p, "none", open(vfs, p).res, Holders(vfs, p), {},
                    IF trail.kind = "dropped" /\ trail.path = p THEN trail ELSE NoTrail)
    /\ trail' = NoTrail
    /\ UNCHANGED <<vfs, handle>>

\* fs.open_options(p, o); the caller drops the handle it returns unused
OpenOptions(p, o) ==
    LET r == open_options(vfs, p, o)
    IN  /\ last = NoCall
        /\ UNCHANGED aside
        /\ handle = NoHandle
        /\ vfs' = r.fs
        /\ last' = Call("open_options", p, o, r.res, Holders(vfs, p), {}, NoTrail)
        /\ trail' = NoTrail
        /\ UNCHANGED handle

\* fs.create(p); the caller keeps the handle
Create(p) ==
    LET r == create(vfs, p)
    IN  /\ last = NoCall
        /\ UNCHANGED aside
        /\ handle = NoHandle
        /\ vfs' = r.fs
        /\ handle' = IF r.res.ok
                     THEN [root |-> r.res.root, key |-> p.comps, pos |-> 0]
                     ELSE handle
        /\ last' = Call("create", p, "none", r.res, Holders(vfs, p), {}, NoTrail)
        /\ trail' = IF r.res.ok THEN Trail("session", p, r.res.root, <<>>, "none", Holders(vfs, p)) ELSE NoTrail

\* file.write(bytes) on the open handle
FileWrite(bytes) ==
    /\ last = NoCall
    /\ UNCHANGED aside
    /\ handle # NoHandle
    /\ bytes # <<>>
    /\ handle.pos + Len(bytes) <= MaxLen
    /\ vfs' = FileWriteAt(vfs, handle, bytes)
    /\ handle' = [handle EXCEPT !.pos = handle.pos + Len(bytes)]
    /\ last' = Call("write", VPath(TRUE, handle.key), bytes, Ok(handle.root, <<>>, "none"),
                    {}, {}, NoTrail)
    /\ trail' = IF trail.kind = "session"
                THEN [trail EXCEPT !.data = trail.data \o bytes]
                ELSE NoTrail

\* the handle goes out of scope
Drop ==
    /\ last = NoCall
    /\ UNCHANGED aside
    /\ handle # NoHandle
    /\ handle' = NoHandle
    /\ last' = Call("drop", VPath(TRUE, handle.key), "none", Ok(handle.root, <<>>, "none"),
                    {}, {}, NoTrail)
    /\ trail' = IF trail.kind = "session" THEN [trail EXCEPT !.kind = "dropped"] ELSE NoTrail
    /\ UNCHANGED vfs

CreateDir(p) ==
    LET r == create_dir(vfs, p)
    IN  /\ last = NoCall
        /\ UNCHANGED aside
        /\ handle = NoHandle
        /\ vfs' = r.fs
        /\ last' = Call("create_dir", p, "none", r.res, Holders(vfs, p), {}, NoTrail)
        /\ trail' = NoTrail
        /\ UNCHANGED handle

Delete(p) ==
    LET r == delete(vfs, p)
    IN  /\ last = NoCall
        /\ UNCHANGED aside
        /\ handle = NoHandle
        /\ vfs' = r.fs
        /\ last' = Call("delete", p, "none", r.res, Holders(vfs, p), {},
                        IF trail.kind = "written" /\ p = CONFIG_NAME THEN trail ELSE NoTrail)
        /\ trail' = IF trail.kind = "written" /\ p = CONFIG_NAME /\ r.res.ok
                    THEN [trail EXCEPT !.kind = "deleted"]
                    ELSE NoTrail
        /\ UNCHANGED handle

DeleteDir(p) ==
    LET r == delete_dir(vfs, p)
    IN  /\ last = NoCall
        /\ UNCHANGED aside
        /\ handle = NoHandle
        /\ vfs' = r.fs
        /\ last' = Call("delete_dir", p, is_dir(vfs, p), r.res, Holders(vfs, p),
                        Beneath(vfs, p), NoTrail)
        /\ trail' = NoTrail
        /\ UNCHANGED handle

Exists(p) ==
    /\ last = NoCall
    /\ UNCHANGED aside
    /\ handle = NoHandle
    /\ last' = Call("exists", p, "none", Ok(0, <<>>, exists(vfs, p)), Holders(vfs, p), {}, NoTrail)
    /\ trail' = NoTrail
    /\ UNCHANGED <<vfs, handle>>

IsFile(p) ==
    /\ last = NoCall
    /\ UNCHANGED aside
    /\ handle = NoHandle
    /\ last' = Call("is_file", p, "none", Ok(0, <<>>, is_file(vfs, p)), Holders(vfs, p), {}, NoTrail)
    /\ trail' = NoTrail
    /\ UNCHANGED <<vfs, handle>>

IsDir(p) ==
    /\ last = NoCall
    /\ UNCHANGED aside
    /\ handle = NoHandle
    /\ last' = Call("is_dir", p, "none", Ok(0, <<>>, is_dir(vfs, p)), Holders(vfs, p), {}, NoTrail)
    /\ trail' = NoTrail
    /\ UNCHANGED <<vfs, handle>>

ReadDir(p) ==
    /\ last = NoCall
    /\ UNCHANGED aside
    /\ handle = NoHandle
    /\ last' = Call("read_dir", p, "none", read_dir(vfs, p).res, Holders(vfs, p), {}, NoTrail)
    /\ trail' = NoTrail
    /\ UNCHANGED <<vfs, handle>>

ReadConfig ==
    /\ last = NoCall
    /\ UNCHANGED aside
    /\ handle = NoHandle
    /\ last' = Call("read_config", CONFIG_NAME, "none", read_config(vfs).res,
                    Holders(vfs, CONFIG_NAME), {}, trail)
    /\ trail' = NoTrail
    /\ UNCHANGED <<vfs, handle>>

WriteConfig(c) ==
    LET r == write_config(vfs, c)
    IN  /\ last = NoCall
        /\ UNCHANGED aside
        /\ handle = NoHandle
        /\ vfs' = r.fs
        /\ last' = Call("write_config", CONFIG_NAME, c, r.res, Holders(vfs, CONFIG_NAME),
                        {}, NoTrail)
        /\ trail' = IF r.res.ok THEN Trail("written", CONFIG_NAME, r.res.root, <<>>, c, Holders(vfs, CONFIG_NAME))
                    ELSE NoTrail
        /\ UNCHANGED handle

\* the absolute and relative paths that open resolves on overlay ov
Opens(ov) == {p \in Paths : open(ov, p).res.ok}

\* The byte sources handed to add_zip_file: an archive and bytes that are
\* no archive.
Readers == {[valid |-> TRUE, nodes |-> TreeB], [valid |-> FALSE, nodes |-> TreeB]}

\* fs.mount(path, readonly), the tree at path being TreeA
Mount(readonly) ==
    LET r == mount(vfs, TreeA, readonly)
    IN  /\ last = NoCall
        /\ UNCHANGED aside
        /\ handle = NoHandle
        /\ Len(vfs) < MaxBackends
        /\ vfs' = r.fs
        /\ last' = Call("mount", CONFIG_NAME, readonly, r.res, {}, Opens(vfs), NoTrail)
        /\ trail' = NoTrail
        /\ UNCHANGED handle

\* fs.add_zip_file(reader)
AddZipFile(reader) ==
    LET r == add_zip_file(vfs, reader)
    IN  /\ last = NoCall
        /\ UNCHANGED aside
        /\ handle = NoHandle
        /\ Len(vfs) < MaxBackends
        /\ vfs' = r.fs
        /\ last' = Call("add_zip_file", CONFIG_NAME, reader, r.res, {}, Opens(vfs), NoTrail)
        /\ trail' = NoTrail
        /\ UNCHANGED handle

\* the owner of the overlay puts backend b in front (OverlayFS::push_front)
PushFront(b) ==
    /\ last = NoCall
    /\ UNCHANGED aside
    /\ handle = NoHandle
    /\ Len(vfs) < MaxBackends
    /\ vfs' = push_front(vfs, b)
    /\ last' = Call("push_front", CONFIG_NAME, b, Ok(1, <<>>, "none"), {}, Opens(vfs), NoTrail)
    /\ trail' = NoTrail
    /\ UNCHANGED handle

\* the caller is done with the result of its last call
Return ==
    /\ last # NoCall
    /\ UNCHANGED aside
    /\ last' = NoCall
    /\ UNCHANGED <<vfs, handle, trail>>

Next ==
    \/ \E p \in Paths : Open(p)
    \/ \E p \in Paths, o \in OptionSets : OpenOptions(p, o)
    \/ \E p \in Paths : Create(p)
    \/ \E bytes \in Contents : FileWrite(bytes)
    \/ Drop
    \/ \E p \in Paths : CreateDir(p)
    \/ \E p \in Paths : Delete(p)
    \/ \E p \in Paths : DeleteDir(p)
    \/ \E p \in Paths : Exists(p)
    \/ \E p \in Paths : IsFile(p)
    \/ \E p \in Paths : IsDir(p)
    \/ \E p \in Paths : ReadDir(p)
    \/ ReadConfig
    \/ \E c \in Confs : WriteConfig(c)
    \/ Return

Spec == Init /\ [][Next]_vars

\* Mounting at run time: the overlay's owner extends the overlay while
\* callers look paths up.
MountInit ==
    /\ vfs \in Overlays(MaxBackends - 1)
              \cup {<<PhysicalFS(TreeEmpty, FALSE)>>, <<ZipFS(TreeB), PhysicalFS(TreeEmpty, FALSE)>>}
    /\ handle = NoHandle
    /\ last = NoCall
    /\ trail = NoTrail
    /\ env = NoEnv
    /\ NoThreads
    /\ NoTimer
    /\ NoClones
    /\ NoLog

MountNext ==
    \/ \E readonly \in BOOLEAN : Mount(readonly)
    \/ \E reader \in Readers : AddZipFile(reader)
    \/ \E b \in Seeds : PushFront(b)
    \/ \E p \in Paths : Open(p)
    \/ \E p \in Paths : Exists(p)
    \/ \E p \in Paths : IsFile(p)
    \/ \E p \in Paths : IsDir(p)
    \/ \E p \in Paths : ReadDir(p)
    \/ Return

MountSpec == MountInit /\ [][MountNext]_vars

\* Filesystem::new(id, author, resources_dir_name, resources_zip_name)
New ==
    LET r == new(env)
    IN  /\ last = NoCall
        /\ handle = NoHandle
        /\ vfs = OverlayFS_new
        /\ vfs' = r.fs
        /\ last' = Call("new", CONFIG_NAME, "none", r.res, {}, {}, NoTrail)
        /\ UNCHANGED <<handle, trail>>
        /\ UNCHANGED aside

\* The default overlay: the Filesystem is constructed by Filesystem::new in
\* some environment and then used.
NewInit ==
    /\ vfs = OverlayFS_new
    /\ handle = NoHandle
    /\ last = NoCall
    /\ trail = NoTrail
    /\ env \in Envs
    /\ NoThreads
    /\ NoTimer
    /\ NoClones
    /\ NoLog

\* a Filesystem has been returned
Built == vfs # OverlayFS_new

NewNext ==
    \/ New
    \/ \E p \in Paths : Built /\ Open(p)
    \/ \E p \in Paths, o \in OptionSets : Built /\ OpenOptions(p, o)
    \/ \E p \in Paths : Built /\ Create(p)
    \/ \E bytes \in Contents : Built /\ FileWrite(bytes)
    \/ Built /\ Drop
    \/ \E p \in Paths : Built /\ CreateDir(p)
    \/ \E p \in Paths : Built /\ Delete(p)
    \/ \E p \in Paths : Built /\ DeleteDir(p)
    \/ \E p \in Paths : Built /\ Exists(p)
    \/ \E p \in Paths : Built /\ IsFile(p)
    \/ \E p \in Paths : Built /\ IsDir(p)
    \/ \E p \in Paths : Built /\ ReadDir(p)
    \/ Built /\ ReadConfig
    \/ \E c \in Confs : Built /\ WriteConfig(c)
    \/ Return

NewSpec == NewInit /\ [][NewNext]_vars

\* Construction followed by every facade operation, the two that extend the
\* backend list included.
ShapeNext ==
    \/ NewNext
    \/ \E readonly \in BOOLEAN : Built /\ Mount(readonly)
    \/ \E reader \in Readers : Built /\ AddZipFile(reader)

ShapeSpec == NewInit /\ [][ShapeNext]_vars

\* -------------------------------------------------------------- sharing
\* The overlay-level calls the threads make while another mounts.
CallOps == {"open", "exists", "read_dir"}

\* The paths they look up: "/d", which the seed trees hold as a directory
\* or as a file, and "/d/f", which one of them lacks.
CallPaths == {VPath(TRUE, <<"d">>), VPath(TRUE, <<"d", "f">>)}

\* one overlay-level call, made with the lock held
OverlayCall(op, ov, p) ==
    IF op = "open" THEN open(ov, p).res
    ELSE IF op = "exists" THEN Ok(0, <<>>, exists(ov, p))
    ELSE read_dir(ov, p).res

\* the slot a growing backend list has before the new backend is written
\* into it
Uninit == Backend("uninit", TRUE, TreeEmpty)

\* no slot of the list is unwritten
Whole(ov) == \A i \in 1..Len(ov) : ov[i] # Uninit

Written(b) == b # Uninit

\* the backends mounted so far: the list without a slot still being written
Mounted(ov) == SelectSeq(ov, Written)

\* the lock, were it handed to every thread that asks
Acquirable_unguarded(l) == TRUE

\* the lock, were a poisoned one taken all the same (the error of lock()
\* unwrapped into its guard)
Acquirable_recovering(l) == l = 0 \/ l = -1

\* Filesystem::vfs: self.vfs.lock() is granted when no thread holds the lock
Acquirable(l) == l = 0

\* a thread begins fs.open(p), fs.exists(p) or fs.read_dir(p)
StartCall(t, op, p) ==
    /\ threads[t].pc = "idle"
    /\ threads' = [threads EXCEPT ![t] = Thread("wait", op, p, "none", Err("none"), Mounted(vfs), <<>>)]
    /\ UNCHANGED <<vfs, handle, last, trail, env, time, lock, fss, arcs, log>>

\* the mounts begun and not yet done
Mounting == {t \in Threads : threads[t].op \in {"mount", "add_zip_file"}}

\* a thread begins fs.mount(path, readonly): the store is constructed before
\* the lock is asked for
StartMount(t, readonly) ==
    /\ threads[t].pc = "idle"
    /\ Len(vfs) + Cardinality(Mounting) < MaxBackends
    /\ threads' = [threads EXCEPT ![t] =
                      Thread("wait", "mount", CONFIG_NAME, readonly, Err("none"), Mounted(vfs), <<>>)]
    /\ UNCHANGED <<vfs, handle, last, trail, env, time, lock, fss, arcs, log>>

\* a thread begins fs.add_zip_file(reader) with an archive: the index is
\* built before the lock is asked for (bytes that are no archive make the
\* call return before it)
StartAddZipFile(t, reader) ==
    /\ threads[t].pc = "idle"
    /\ reader.valid
    /\ Len(vfs) + Cardinality(Mounting) < MaxBackends
    /\ threads' = [threads EXCEPT ![t] =
                      Thread("wait", "add_zip_file", CONFIG_NAME, reader, Err("none"), Mounted(vfs), <<>>)]
    /\ UNCHANGED <<vfs, handle, last, trail, env, time, lock, fss, arcs, log>>

\* self.vfs().open(path) and the like: the thread takes the lock and the
\* overlay call runs on the list as the thread finds it
Perform(t) ==
    /\ threads[t].pc = "wait"
    /\ threads[t].op \in CallOps
    /\ Acquirable(lock)
    /\ lock' = t
    /\ threads' = [threads EXCEPT ![t].pc = "ran",
                                  ![t].seen = vfs,
                                  ![t].res = OverlayCall(threads[t].op, vfs, threads[t].path)]
    /\ UNCHANGED <<vfs, handle, last, trail, env, time, fss, arcs, log>>

\* self.vfs().push_back(..), first half: the thread takes the lock and the
\* list grows by one slot
PushSlot(t) ==
    /\ threads[t].pc = "wait"
    /\ threads[t].op \in {"mount", "add_zip_file"}
    /\ Acquirable(lock)
    /\ lock' = t
    /\ vfs' = Append(vfs, Uninit)
    /\ threads' = [threads EXCEPT ![t].pc = "pushing", ![t].seen = vfs]
    /\ UNCHANGED <<handle, last, trail, env, time, fss, arcs, log>>

\* push_back, second half: the new backend is written into the slot
PushFill(t) ==
    LET r == IF threads[t].op = "mount"
             THEN mount(threads[t].seen, TreeA, threads[t].arg)
             ELSE add_zip_file(threads[t].seen, threads[t].arg)
    IN  /\ threads[t].pc = "pushing"
        /\ vfs' = r.fs
        /\ threads' = [threads EXCEPT ![t].pc = "ran", ![t].res = r.res]
        /\ UNCHANGED <<handle, last, trail, env, time, lock, fss, arcs, log>>

\* the guard is dropped at the end of the statement and the call returns
Unlock(t) ==
    /\ threads[t].pc = "ran"
    /\ lock' = 0
    /\ threads' = [threads EXCEPT ![t] = IdleThread]
    /\ UNCHANGED <<vfs, handle, last, trail, env, time, fss, arcs, log>>

\* Threads sharing one Filesystem: some mount (read-write, the flag playing
\* no part in look-ups), some look paths up.
ConcInit ==
    /\ vfs \in Overlays(MaxBackends - 1)
    /\ handle = NoHandle
    /\ last = NoCall
    /\ trail = NoTrail
    /\ env = NoEnv
    /\ NoThreads
    /\ NoTimer
    /\ NoClones
    /\ NoLog

ConcNext ==
    \/ \E t \in Threads, op \in CallOps, p \in CallPaths : StartCall(t, op, p)
    \/ \E t \in Threads : StartMount(t, FALSE)
    \/ \E t \in Threads, reader \in Readers : StartAddZipFile(t, reader)
    \/ \E t \in Threads : Perform(t)
    \/ \E t \in Threads : PushSlot(t)
    \/ \E t \in Threads : PushFill(t)
    \/ \E t \in Threads : Unlock(t)

ConcSpec == ConcInit /\ [][ConcNext]_vars

\* -------------------------------------------------------------- methods
\* The facade methods of more than one statement, run by threads sharing the
\* Filesystem.  Each statement that reaches the overlay does so through
\* self.vfs(): it takes the lock, makes its overlay call and drops the guard
\* at its end.  The lock is 0 when free, a thread when held, and -1 when
\* free and poisoned.
Methods ==
    {"read_config", "write_config", "delete", "mount", "add_zip_file", "print_all",
     "user_config_dir"}

\* the arguments of a method call: the configuration of write_config, the
\* flag of mount, the byte source of add_zip_file
Arg(conf, readonly, reader) == [conf |-> conf, readonly |-> readonly, reader |-> reader]

NoArg == Arg("none", FALSE, [valid |-> FALSE, nodes |-> TreeB])

\* the arguments the methods are called with
Inputs(m) ==
    IF m = "write_config" THEN {[NoArg EXCEPT !.conf = "windowed"]}
    ELSE IF m = "add_zip_file" THEN {[NoArg EXCEPT !.reader = r] : r \in Readers}
    ELSE {NoArg}

\* where a thread is in its method: the statement it is at, the method's
\* argument, and whether the lock was already poisoned when the method was
\* called
Frame(stmt, input, late) == [stmt |-> stmt, input |-> input, late |-> late]

\* a thread in no method
Resting == Thread("idle", "none", CONFIG_NAME, Frame(0, NoArg, FALSE), Err("none"), <<>>, <<>>)

ConfigNotFound == Res(FALSE, "ConfigError", 0, <<>>, "Config file not found")

ConfigNotWritten == Res(FALSE, "ConfigError", 0, <<>>, "Failed to write config file")

\* std::sync::Mutex: a guard dropped by a panicking thread poisons the lock
Poisoned(l) == l = -1

\* the lock, were the guard kept past the end of its statement
guard_kept(l) == l

\* the guard returned by vfs() is a temporary: it is dropped at the end of
\* the statement that made it, on the error paths as on the others
guard_dropped(l) == 0

\* the first statement of method m: add_zip_file reads the archive index
\* before it asks for the lock, user_config_dir returns a field of the
\* Filesystem, the others go to the overlay at once
FirstStatement(m) == IF m \in {"add_zip_file", "user_config_dir"} THEN "free" ELSE "wait"

\* the overlay call the statement of thread th makes on overlay ov with the
\* lock held; the answer of is_file is the ok of the result
Statement(th, ov) ==
    IF th.op = "read_config"
    THEN IF th.arg.stmt = 1 THEN Out([th.res EXCEPT !.ok = is_file(ov, CONFIG_NAME)], ov)
         ELSE Out(open(ov, CONFIG_NAME).res, ov)
    ELSE IF th.op = "write_config"
    THEN IF th.arg.stmt = 1 THEN create(ov, CONFIG_NAME)
         ELSE Out([th.res EXCEPT !.ok = is_file(ov, CONFIG_NAME)], ov)
    ELSE IF th.op = "delete" THEN delete(ov, CONFIG_NAME)
    ELSE IF th.op = "mount" THEN mount(ov, TreeA, th.arg.input.readonly)
    ELSE IF th.op = "add_zip_file" THEN add_zip_file(ov, th.arg.input.reader)
    ELSE Out(Ok(0, <<>>, "none"), ov)

\* thread th returns res to its caller
Returned(th, res) == [th EXCEPT !.pc = "done", !.res = res]

\* thread th goes on to its next statement, which asks for the lock (pc
\* "wait") or does not (pc "free")
Onward(th, pc) == [th EXCEPT !.pc = pc, !.arg.stmt = @ + 1]

\* the thread after the statement it ran with the lock: the method returns
\* or goes on
AfterStatement(th) ==
    IF th.op = "read_config"
    THEN IF th.arg.stmt = 1
         THEN IF th.res.ok THEN Onward(th, "wait") ELSE Returned(th, ConfigNotFound)
         ELSE IF ~th.res.ok THEN Returned(th, th.res)
         ELSE Returned(th, LET c == FromToml(th.res.data)
                           IN  IF c.ok THEN [c EXCEPT !.root = th.res.root] ELSE c)
    ELSE IF th.op = "write_config"
    THEN IF th.arg.stmt = 1
         THEN IF th.res.ok THEN Onward(th, "free") ELSE Returned(th, th.res)
         ELSE IF th.res.ok THEN Returned(th, Ok(th.res.root, <<>>, "none"))
         ELSE Returned(th, ConfigNotWritten)
    ELSE Returned(th, th.res)

\* a thread calls method m with argument input
Enter(t, m, input) ==
    /\ threads[t].pc = "idle"
    /\ m \in {"mount", "add_zip_file"} => Len(vfs) + Cardinality(Mounting) < MaxBackends
    /\ threads' = [threads EXCEPT ![t] =
                      Thread(FirstStatement(m), m, CONFIG_NAME, Frame(1, input, Poisoned(lock)),
                             Err("none"), <<>>, <<>>)]
    /\ UNCHANGED <<vfs, handle, last, trail, env, time, lock, fss, arcs, log>>

\* a statement of a thread takes the lock and makes its overlay call
RunLocked(t) ==
    LET r == Statement(threads[t], vfs)
    IN  /\ threads[t].pc = "wait"
        /\ threads[t].op # "print_all"
        /\ Acquirable(lock)
        /\ lock' = t
        /\ vfs' = r.fs
        /\ threads' = [threads EXCEPT ![t].pc = "ran", ![t].res = r.res, ![t].seen = vfs]
        /\ UNCHANGED <<handle, last, trail, env, time, fss, arcs, log>>

\* write_to_string: `for vfs in self.vfs().roots()` takes the lock and the
\* guard lives as long as the loop
DumpLock(t) ==
    /\ threads[t].pc = "wait"
    /\ threads[t].op = "print_all"
    /\ Acquirable(lock)
    /\ lock' = t
    /\ threads' = [threads EXCEPT ![t].pc = "held", ![t].res = Ok(0, <<>>, "none"), ![t].seen = vfs]
    /\ UNCHANGED <<vfs, handle, last, trail, env, time, fss, arcs, log>>

\* the loop lists one more backend under the guard, calling the backend's
\* own read_dir
DumpRoot(t) ==
    /\ threads[t].pc = "held"
    /\ threads' = [threads EXCEPT ![t].arg.stmt = @ + 1,
                                  ![t].pc = IF threads[t].arg.stmt >= Len(vfs)
                                            THEN "ran" ELSE "held"]
    /\ UNCHANGED <<vfs, handle, last, trail, env, time, lock, fss, arcs, log>>

\* the statement ends: its guard is dropped and the method returns or goes
\* on to its next statement
DropGuard(t) ==
    /\ threads[t].pc = "ran"
    /\ lock' = guard_dropped(lock)
    /\ threads' = [threads EXCEPT ![t] = AfterStatement(threads[t])]
    /\ UNCHANGED <<vfs, handle, last, trail, env, time, fss, arcs, log>>

\* a statement that does not reach the overlay: write_config writes the
\* configuration through the File that create returned; user_config_dir
\* returns the path; add_zip_file reads the archive index and returns the
\* error if the bytes are no archive
RunFree(t) ==
    LET th == threads[t]
        h == [root |-> th.res.root, key |-> CONFIG_NAME.comps, pos |-> 0]
    IN  /\ th.pc = "free"
        /\ IF th.op = "write_config"
           THEN /\ vfs' = FileWriteAt(vfs, h, ToToml(th.arg.input.conf))
                /\ threads' = [threads EXCEPT ![t] = Onward(th, "wait")]
           ELSE IF th.op = "user_config_dir"
           THEN /\ vfs' = vfs
                /\ threads' = [threads EXCEPT ![t] = Returned(th, Ok(0, <<>>, "none"))]
           ELSE /\ vfs' = vfs
                /\ threads' = [threads EXCEPT ![t] =
                       IF ZipFS_from_read(th.arg.input.reader).res.ok
                       THEN [th EXCEPT !.pc = "wait"]
                       ELSE Returned(th, ZipFS_from_read(th.arg.input.reader).res)]
        /\ UNCHANGED <<handle, last, trail, env, time, lock, fss, arcs, log>>

\* the caller has the method's result (or, after a panic, the thread has
\* unwound) and the thread is free for its next call
Finish(t) ==
    /\ threads[t].pc \in {"done", "panicked"}
    /\ threads' = [threads EXCEPT ![t] = Resting]
    /\ UNCHANGED <<vfs, handle, last, trail, env, time, lock, fss, arcs, log>>

\* One writable directory store holding "/conf.toml", shared by the threads.
RaceInit ==
    /\ vfs = <<PhysicalFS(TreeA, FALSE)>>
    /\ handle = NoHandle
    /\ last = NoCall
    /\ trail = NoTrail
    /\ env = NoEnv
    /\ lock = 0
    /\ threads = [t \in Threads |-> Resting]
    /\ NoTimer
    /\ NoClones
    /\ NoLog

RaceNext ==
    \/ \E t \in Threads, m \in Methods : \E input \in Inputs(m) : Enter(t, m, input)
    \/ \E t \in Threads : RunLocked(t)
    \/ \E t \in Threads : DumpLock(t)
    \/ \E t \in Threads : DumpRoot(t)
    \/ \E t \in Threads : DropGuard(t)
    \/ \E t \in Threads : RunFree(t)
    \/ \E t \in Threads : Finish(t)

RaceSpec == RaceInit /\ [][RaceNext]_vars

\* what every step of thread t inside a method changes: the lock, the
\* place of the thread in its statement, or the statement it is at
progress(t) == <<lock, threads[t].pc, threads[t].arg.stmt>>

\* A fair scheduler: a thread that can take a step inside its statement
\* takes it, and a thread that asks for the lock gets it if the lock keeps
\* coming free.  When a caller makes its next call is up to the caller.
Fair(t) ==
    /\ SF_progress(t)(RunLocked(t))
    /\ SF_progress(t)(DumpLock(t))
    /\ WF_progress(t)(DumpRoot(t))
    /\ WF_progress(t)(DropGuard(t))
    /\ WF_progress(t)(RunFree(t))

FairSpec == RaceSpec /\ \A t \in Threads : Fair(t)

\* -------------------------------------------------------------- panics
\* a thread panics inside a locked statement (an expect of write_to_string,
\* a panic inside an overlay call): its guard is dropped by the unwinding
\* and the lock is left poisoned
PanicInside(t) ==
    /\ threads[t].pc \in {"ran", "held"}
    /\ lock' = -1
    /\ threads' = [threads EXCEPT ![t].pc = "panicked"]
    /\ UNCHANGED <<vfs, handle, last, trail, env, time, fss, arcs, log>>

\* self.vfs.lock().unwrap() on a poisoned lock: lock() returns the error
\* and unwrap panics
PanicAtLock(t) ==
    /\ threads[t].pc = "wait"
    /\ Poisoned(lock)
    /\ threads' = [threads EXCEPT ![t].pc = "panicked"]
    /\ UNCHANGED <<vfs, handle, last, trail, env, time, lock, fss, arcs, log>>

PoisonNext ==
    \/ RaceNext
    \/ \E t \in Threads : PanicInside(t)
    \/ \E t \in Threads : PanicAtLock(t)

PoisonSpec == RaceInit /\ [][PoisonNext]_vars

\* -------------------------------------------------------------- cloning
\* Most clones made of the original Filesystem.
MaxClones == 2

\* the overlay a Filesystem value points to
OverlayOf(f) == arcs[f.vfs]

\* the paths the holders of the clones create, delete and look up
ClonePaths == {CONFIG_NAME, VPath(TRUE, <<"d", "f">>)}

\* a call through the i-th Filesystem value and its result
CloneCall(op, i, p, res) == Call(op, p, i, res, Holders(OverlayOf(fss[i]), p), {}, NoTrail)

\* the last change made to an overlay: through which value, to which path,
\* and which positions held the path before
Changed(op, i, p, had) == Trail(op, p, i, <<>>, "none", had)

\* InternalClone::clone(&fss[i])
Clone(i) ==
    LET r == clone(fss[i], arcs)
    IN  /\ Len(fss) < 1 + MaxClones
        /\ fss' = Append(fss, r.res)
        /\ arcs' = r.fs
        /\ last' = CloneCall("clone", i, CONFIG_NAME, Ok(0, <<>>, "none"))
        /\ UNCHANGED <<vfs, handle, trail, env, lock, threads, time, log>>

\* fss[i].mount(path, readonly), the tree at path being TreeA
CloneMount(i) ==
    LET r == mount(OverlayOf(fss[i]), TreeA, FALSE)
    IN  /\ Len(OverlayOf(fss[i])) < MaxBackends
        /\ arcs' = [arcs EXCEPT ![fss[i].vfs] = r.fs]
        /\ last' = CloneCall("mount", i, CONFIG_NAME, r.res)
        /\ trail' = Changed("mount", i, CONFIG_NAME, {})
        /\ UNCHANGED <<vfs, handle, env, lock, threads, time, fss, log>>

\* fss[i].create(p), the File dropped unwritten
CloneCreate(i, p) ==
    LET r == create(OverlayOf(fss[i]), p)
    IN  /\ arcs' = [arcs EXCEPT ![fss[i].vfs] = r.fs]
        /\ last' = CloneCall("create", i, p, r.res)
        /\ trail' = IF r.res.ok THEN Changed("create", i, p, Holders(OverlayOf(fss[i]), p))
                    ELSE trail
        /\ UNCHANGED <<vfs, handle, env, lock, threads, time, fss, log>>

\* fss[i].delete(p)
CloneDelete(i, p) ==
    LET r == delete(OverlayOf(fss[i]), p)
    IN  /\ arcs' = [arcs EXCEPT ![fss[i].vfs] = r.fs]
        /\ last' = CloneCall("delete", i, p, r.res)
        /\ trail' = IF r.res.ok THEN Changed("delete", i, p, Holders(OverlayOf(fss[i]), p))
                    ELSE trail
        /\ UNCHANGED <<vfs, handle, env, lock, threads, time, fss, log>>

\* fss[i].exists(p)
CloneExists(i, p) ==
    /\ last' = CloneCall("exists", i, p, Ok(0, <<>>, exists(OverlayOf(fss[i]), p)))
    /\ UNCHANGED <<vfs, handle, trail, env, lock, threads, time, fss, arcs, log>>

\* One Filesystem over one writable directory store, empty or not.
CloneInit ==
    /\ vfs = OverlayFS_new
    /\ handle = NoHandle
    /\ last = NoCall
    /\ trail = NoTrail
    /\ env = NoEnv
    /\ NoThreads
    /\ NoTimer
    /\ fss = <<Filesystem(1, "resources", "resources.zip", "config", "data")>>
    /\ arcs \in {<<(<<PhysicalFS(TreeEmpty, FALSE)>>)>>, <<(<<PhysicalFS(TreeA, FALSE)>>)>>}
    /\ NoLog

CloneNext ==
    \/ \E i \in 1..Len(fss) : Clone(i)
    \/ \E i \in 1..Len(fss) : CloneMount(i)
    \/ \E i \in 1..Len(fss), p \in ClonePaths : CloneCreate(i, p)
    \/ \E i \in 1..Len(fss), p \in ClonePaths : CloneDelete(i, p)
    \/ \E i \in 1..Len(fss), p \in ClonePaths : CloneExists(i, p)

CloneSpec == CloneInit /\ [][CloneNext]_vars

\* -------------------------------------------------------------- frame timing
\* The time a frame took: the clock readings tick takes lie this far apart.
FrameTimes == {from_millis(5), from_millis(40)}

\* The target frame rates asked of check_update_time: 25 fps (40 ms a
\* frame) and 50 fps (20 ms).
Rates == {25, 50}

\* a call on the timer and what it returned
TimerCall(op, arg, val) == Call(op, CONFIG_NAME, arg, Ok(0, <<>>, val), {}, {}, NoTrail)

\* the durations of the ticks so far, oldest first; in root the number of
\* check_update_time calls that returned true and in had the rates asked
Ticked(durations) == Trail("ticks", CONFIG_NAME, 0, durations, "none", {})

\* ctx.time.tick(), d after the clock reading before it
Tick(d) ==
    /\ time.frame_count < MaxTicks
    /\ time' = tick(time, time.last_instant + d)
    /\ last' = TimerCall("tick", d, "none")
    /\ trail' = [trail EXCEPT !.data = Append(@, d)]
    /\ UNCHANGED <<vfs, handle, env, lock, threads, fss, arcs, log>>

CheckUpdateTime(fps) ==
    LET r == check_update_time(time, fps)
    IN  /\ time' = r.fs
        /\ last' = TimerCall("check_update_time", fps, r.res.val)
        /\ trail' = [trail EXCEPT !.had = @ \cup {fps},
                                  !.root = IF r.res.val = TRUE THEN @ + 1 ELSE @]
        /\ UNCHANGED <<vfs, handle, env, lock, threads, fss, arcs, log>>

RemainingUpdateTime ==
    /\ last' = TimerCall("remaining_update_time", "none", remaining_update_time(time))
    /\ UNCHANGED <<vfs, handle, trail, env, lock, threads, time, fss, arcs, log>>

Delta ==
    /\ last' = TimerCall("delta", "none", delta(time))
    /\ UNCHANGED <<vfs, handle, trail, env, lock, threads, time, fss, arcs, log>>

AverageDelta ==
    /\ last' = TimerCall("average_delta", "none", average_delta(time))
    /\ UNCHANGED <<vfs, handle, trail, env, lock, threads, time, fss, arcs, log>>

Ticks ==
    /\ last' = TimerCall("ticks", "none", ticks(time))
    /\ UNCHANGED <<vfs, handle, trail, env, lock, threads, time, fss, arcs, log>>

TimerInit ==
    /\ vfs = OverlayFS_new
    /\ handle = NoHandle
    /\ last = NoCall
    /\ trail = Ticked(<<>>)
    /\ env = NoEnv
    /\ NoThreads
    /\ time = TimeContext_new(0)
    /\ NoClones
    /\ NoLog

TimerNext ==
    \/ \E d \in FrameTimes : Tick(d)
    \/ \E fps \in Rates : CheckUpdateTime(fps)
    \/ RemainingUpdateTime
    \/ Delta
    \/ AverageDelta
    \/ Ticks

TimerSpec == TimerInit /\ [][TimerNext]_vars

\* ---- the update loop: while ctx.time.check_update_time(fps) { .. }
\* A target_fps: u32 so high that 1.0 / fps is under half a nanosecond.
HugeRate == 2100000000

\* the rates a loop may ask: one rate for the whole run
LoopRates == Rates \cup {HugeRate}

\* The loop as its caller sees it: in had its rate, in kind what it did last
\* ("tick", or the answer of check_update_time: "true", "false"), in root
\* whether it has made an odd number of calls, in data the frame times.
Looping(fps) == Trail("start", CONFIG_NAME, 0, <<>>, "none", {fps})

\* the frame ends: ctx.time.tick(), d after the clock reading before it
LoopTick(d) ==
    /\ time.frame_count < MaxTicks
    /\ time' = tick(time, time.last_instant + d)
    /\ trail' = [trail EXCEPT !.kind = "tick", !.data = Append(@, d)]
    /\ UNCHANGED <<vfs, handle, last, env, lock, threads, fss, arcs, log>>

\* one turn of the loop: the condition is evaluated once more
LoopCheck ==
    \E fps \in trail.had :
        LET r == check_update_time(time, fps)
        IN  /\ time' = r.fs
            /\ trail' = [trail EXCEPT !.kind = IF r.res.val THEN "true" ELSE "false",
                                      !.root = 1 - @]
            /\ UNCHANGED <<vfs, handle, last, env, lock, threads, fss, arcs, log>>

LoopInit ==
    /\ vfs = OverlayFS_new
    /\ handle = NoHandle
    /\ last = NoCall
    /\ \E fps \in LoopRates : trail = Looping(fps)
    /\ env = NoEnv
    /\ NoThreads
    /\ time = TimeContext_new(0)
    /\ NoClones
    /\ NoLog

LoopNext ==
    \/ \E d \in FrameTimes : LoopTick(d)
    \/ LoopCheck

\* the timer and the turn of the loop: every call of the loop changes it
looping == <<time, trail.root>>

\* the loop keeps calling: between ticks the caller does nothing else
LoopSpec == LoopInit /\ [][LoopNext]_vars /\ WF_looping(LoopCheck)

\* ---- a LogBuffer on its own
\* the value the buffer is filled with when made
InitVal == from_millis(16)

\* the items pushed so far, oldest first
Pushed(items) == Trail("pushes", CONFIG_NAME, 0, items, "none", {})

\* buffer.push(item)
Push(item) ==
    /\ Len(trail.data) < MaxTicks
    /\ log' = LogBuffer_push(log, item)
    /\ trail' = [trail EXCEPT !.data = Append(@, item)]
    /\ UNCHANGED <<vfs, handle, last, env, lock, threads, time, fss, arcs>>

\* LogBuffer::new(size, init_val) for every capacity up to MaxLogFrames
BufferInit ==
    /\ vfs = OverlayFS_new
    /\ handle = NoHandle
    /\ last = NoCall
    /\ trail = Pushed(<<>>)
    /\ env = NoEnv
    /\ NoThreads
    /\ NoTimer
    /\ NoClones
    /\ \E size \in 1..MaxLogFrames : log = LogBuffer_new(size, InitVal)

BufferNext == \E item \in FrameTimes : Push(item)

BufferSpec == BufferInit /\ [][BufferNext]_vars

\* -------------------------------------------------------------- properties
Min(S) == CHOOSE x \in S : \A y \in S : x <= y

\* backend b holds the presented path p (as anything, as a file, as a
\* directory)
ContainsPath(b, p) == p.abs /\ b.nodes[p.comps].t # "absent"

ContainsFile(b, p) == p.abs /\ b.nodes[p.comps].t = "file"

ContainsDir(b, p) == p.abs /\ b.nodes[p.comps].t = "dir"

PathHolders(ov, p) == {i \in 1..Len(ov) : ContainsPath(ov[i], p)}

FileHolders(ov, p) == {i \in 1..Len(ov) : ContainsFile(ov[i], p)}

DirHolders(ov, p) == {i \in 1..Len(ov) : ContainsDir(ov[i], p)}

WritableRoots(ov) == {i \in 1..Len(ov) : ~ov[i].readonly}

\* C1: exists(p) is true iff some backend contains p, and open(p) yields the
\* content of the lowest-index backend that holds p as a file (and fails
\* when none does); nothing else in the overlay enters the result.
C1_FirstMatch ==
    /\ last.op = "exists" => (last.res.val <=> PathHolders(vfs, last.path) # {})
    /\ last.op = "open" =>
          LET fh == FileHolders(vfs, last.path)
          IN  IF fh = {} THEN ~last.res.ok
              ELSE /\ last.res.ok
                   /\ last.res.root = Min(fh)
                   /\ last.res.data = vfs[Min(fh)].nodes[last.path.comps].data

\* an open answered by the front backend although a backend behind it holds
\* the same path with another content
C1_Witness ==
    /\ last.op = "open" /\ last.res.ok /\ last.res.root = 1
    /\ \E j \in FileHolders(vfs, last.path) :
          j > 1 /\ vfs[j].nodes[last.path.comps].data # last.res.data

\* C2: a successful create(p), or open_options(p) with create+write, of a
\* path no backend contained puts p in the first writable backend and in no
\* other; exists(p) is then true and open(p) resolves to that backend.
C2_CreateLands ==
    (/\ last.op = "create" \/ (last.op = "open_options" /\ last.arg.create /\ last.arg.write)
     /\ last.res.ok
     /\ last.had = {})
    => LET w == Min(WritableRoots(vfs))
           p == last.path
       IN  /\ WritableRoots(vfs) # {}
           /\ last.res.root = w
           /\ PathHolders(vfs, p) = {w}
           /\ ContainsFile(vfs[w], p)
           /\ exists(vfs, p)
           /\ open(vfs, p).res.ok
           /\ open(vfs, p).res.root = w

\* a create of a path held nowhere that landed in the second backend, the
\* first being readonly
C2_Witness ==
    /\ last.op = "create" /\ last.res.ok /\ last.had = {}
    /\ last.res.root = 2
    /\ Len(vfs) >= 2 /\ vfs[1].readonly

\* C3 as stated: whatever the other backends hold, create(p), writing B,
\* dropping the handle and then open(p) + read_to_end yields exactly B.
C3_Original ==
    (last.op = "open" /\ last.ctx.kind = "dropped")
    => (last.res.ok /\ last.res.data = last.ctx.data)

\* C3, amended: the round trip yields exactly the bytes written provided no
\* backend in front of the one create wrote to holds p as a file; open then
\* resolves to that backend.
C3_RoundTrip ==
    (/\ last.op = "open" /\ last.ctx.kind = "dropped"
     /\ \A i \in 1..(last.ctx.root - 1) : ~ContainsFile(vfs[i], last.path))
    => /\ last.res.ok
       /\ last.res.root = last.ctx.root
       /\ last.res.data = last.ctx.data
       /\ Len(last.res.data) = Len(last.ctx.data)

\* bytes written to the second backend, behind a readonly backend that does
\* not hold p as a file, are read back
C3_Witness ==
    /\ last.op = "open" /\ last.ctx.kind = "dropped"
    /\ last.ctx.data # <<>>
    /\ last.res.ok /\ last.res.data = last.ctx.data
    /\ last.ctx.root = 2

\* every readonly backend is the same after a step as before it
ReadonlyUntouched ==
    \A i \in 1..Len(vfs) : vfs[i].readonly => (i <= Len(vfs') /\ vfs'[i] = vfs[i])

\* the call is one of create, create_dir, delete, delete_dir, or an
\* open_options requesting write, append, create or truncate
MutatingCall(c) ==
    \/ c.op \in {"create", "create_dir", "delete", "delete_dir"}
    \/ c.op = "open_options" /\ Mutating(c.arg)

\* the overlay holds at least one backend and only readonly ones
AllReadonly(ov) == Len(ov) >= 1 /\ \A i \in 1..Len(ov) : ov[i].readonly

\* C4 as stated, its last part: on an overlay of readonly backends each
\* mutating call fails with a permission error.
C4_Original ==
    (AllReadonly(vfs) /\ MutatingCall(last))
    => (~last.res.ok /\ last.res.err = "PermissionDenied")

\* on an overlay of readonly backends a mutating call fails: with the
\* permission error, which open_options returns wrapped in ResourceLoadError
RefusedReadonly ==
    (AllReadonly(vfs) /\ MutatingCall(last))
    => /\ ~last.res.ok
       /\ IF last.op = "open_options"
          THEN last.res.err = "ResourceLoadError" /\ last.res.val = "PermissionDenied"
          ELSE last.res.err = "PermissionDenied"

\* C4, amended: no step changes a readonly backend (directory store mounted
\* readonly, or archive); on an overlay of readonly backends every mutating
\* call fails and leaves the overlay and the caller without a handle, with
\* the permission error, which open_options returns wrapped in
\* ResourceLoadError.
C4_ReadonlyNeverMutated ==
    [][/\ ReadonlyUntouched
       /\ RefusedReadonly'
       /\ (AllReadonly(vfs) /\ last = NoCall /\ MutatingCall(last'))
              => (vfs' = vfs /\ handle' = handle)]_vars

\* an open_options with write intent refused on an overlay of a readonly
\* directory store and an archive that both hold the path
C4_Witness ==
    /\ AllReadonly(vfs) /\ Len(vfs) = 2
    /\ vfs[1].kind = "phys" /\ vfs[2].kind = "zip"
    /\ last.op = "open_options" /\ Mutating(last.arg)
    /\ PathHolders(vfs, last.path) = {1, 2}
    /\ last.res.err = "ResourceLoadError"

\* C5: open(p) fails with ResourceNotFound and returns no handle whenever no
\* backend holds p as a file: p absent everywhere, p relative, p only a
\* directory.
C5_OpenNotFound ==
    (last.op = "open" /\ FileHolders(vfs, last.path) = {})
    => /\ ~last.res.ok
       /\ last.res.err = "ResourceNotFound"
       /\ last.res.root = 0
       /\ last.res.data = <<>>

\* an open of a path that a backend holds as a directory, refused
C5_Witness ==
    /\ last.op = "open" /\ last.res.err = "ResourceNotFound"
    /\ DirHolders(vfs, last.path) # {}
    /\ last.path.comps # <<>>

\* the entries of a listing, as a set
Entries(list) == {list[i] : i \in 1..Len(list)}

\* C6: read_dir(d) lists exactly the direct children, as absolute virtual
\* paths, of d in the first backend that holds d as a directory, each once;
\* what later backends hold under d is not listed; with no such backend it
\* fails.
C6_ReadDirFirstOnly ==
    last.op = "read_dir" =>
        LET dh == DirHolders(vfs, last.path)
            d == last.path.comps
        IN  IF dh = {} THEN ~last.res.ok
            ELSE /\ last.res.ok
                 /\ last.res.root = Min(dh)
                 /\ Entries(last.res.data) =
                        {VPath(TRUE, c) : c \in {k \in Keys : /\ Len(k) = Len(d) + 1
                                                              /\ SubSeq(k, 1, Len(d)) = d
                                                              /\ vfs[Min(dh)].nodes[k].t # "absent"}}
                 /\ Cardinality(Entries(last.res.data)) = Len(last.res.data)

\* a listing served by the front backend while a later backend holds, under
\* the same directory, a child the listing lacks
C6_Witness ==
    /\ last.op = "read_dir" /\ last.res.ok /\ last.res.root = 1
    /\ \E j \in DirHolders(vfs, last.path), c \in Keys :
          /\ j > 1
          /\ Len(c) = Len(last.path.comps) + 1
          /\ IsPrefix(last.path.comps, c)
          /\ vfs[j].nodes[c].t # "absent"
          /\ VPath(TRUE, c) \notin Entries(last.res.data)

\* C7 as stated: after a successful delete_dir(d) of a directory d, exists
\* is false for d and for every path that was beneath d.
C7_Original ==
    (last.op = "delete_dir" /\ last.res.ok /\ last.arg)
    => \A q \in last.desc : ~exists(vfs, q)

\* C7, amended: a successful delete_dir(d) removes d and everything beneath
\* it from the backend it acted on; exists(d) and exists(q), for every q
\* that was beneath d, are false afterwards provided no other backend
\* contained d.
C7_DeleteDir ==
    (last.op = "delete_dir" /\ last.res.ok /\ last.arg)
    => /\ last.res.root \in last.had
       /\ \A k \in Subtree(last.path.comps) : vfs[last.res.root].nodes[k].t = "absent"
       /\ last.had = {last.res.root} => \A q \in last.desc : ~exists(vfs, q)

\* a directory with something beneath it, held by one backend of two,
\* deleted
C7_Witness ==
    /\ last.op = "delete_dir" /\ last.res.ok /\ last.arg
    /\ last.had = {last.res.root}
    /\ Cardinality(last.desc) >= 2
    /\ Len(vfs) >= 2
    /\ \A q \in last.desc : ~exists(vfs, q)

\* C8 as stated: on every overlay, read_config right after a write_config(c)
\* that returned Ok returns c.
C8_Original ==
    (last.op = "read_config" /\ last.ctx.kind = "written")
    => (last.res.ok /\ last.res.val = last.ctx.val)

\* C8, amended: read_config right after a write_config(c) that returned Ok
\* returns c, read from the file just written, provided no backend in front
\* of the first writable backend holds "/conf.toml" as a file.
C8_ConfigRoundTrip ==
    (/\ last.op = "read_config" /\ last.ctx.kind = "written"
     /\ \A i \in 1..(last.ctx.root - 1) : ~ContainsFile(vfs[i], CONFIG_NAME))
    => /\ last.res.ok
       /\ last.res.val = last.ctx.val
       /\ last.res.root = last.ctx.root
       /\ last.ctx.root = Min(WritableRoots(vfs))

\* a configuration read back although a backend behind the one written to
\* holds another "/conf.toml"
C8_Witness ==
    /\ last.op = "read_config" /\ last.ctx.kind = "written"
    /\ last.res.ok /\ last.res.val = last.ctx.val
    /\ \E j \in FileHolders(vfs, CONFIG_NAME) :
          j > last.ctx.root /\ FromToml(vfs[j].nodes[CONFIG_NAME.comps].data).val # last.ctx.val

\* C9 as stated: on every overlay, after write_config returned Ok and then
\* delete("/conf.toml") returned Ok, read_config fails with ConfigError
\* ("Config file not found").
C9_Original ==
    (last.op = "read_config" /\ last.ctx.kind = "deleted")
    => /\ ~last.res.ok
       /\ last.res.err = "ConfigError"
       /\ last.res.val = "Config file not found"

\* C9, amended: after write_config returned Ok and then delete("/conf.toml")
\* returned Ok, read_config fails with ConfigError ("Config file not found")
\* provided no backend other than the one written to contained "/conf.toml"
\* before the write_config.
C9_DeletedConfig ==
    (/\ last.op = "read_config" /\ last.ctx.kind = "deleted"
     /\ last.ctx.had \subseteq {last.ctx.root})
    => /\ ~last.res.ok
       /\ last.res.err = "ConfigError"
       /\ last.res.val = "Config file not found"
       /\ PathHolders(vfs, CONFIG_NAME) = {}

\* the configuration written to an overlay of two backends neither of which
\* held one, deleted, and then not found
C9_Witness ==
    /\ last.op = "read_config" /\ last.ctx.kind = "deleted" /\ last.ctx.had = {}
    /\ Len(vfs) = 2
    /\ last.res.err = "ConfigError"

\* C10: exists, is_file and is_dir answer with a boolean for every path in
\* every overlay state, false when no backend's probe succeeds; is_file(p)
\* and is_dir(p) are never both true, and neither is true when exists(p) is
\* false.
C10_BooleanQueries ==
    /\ last.op \in {"exists", "is_file", "is_dir"} => (last.res.ok /\ last.res.val \in BOOLEAN)
    /\ \A p \in Paths :
          /\ exists(vfs, p) \in BOOLEAN /\ is_file(vfs, p) \in BOOLEAN /\ is_dir(vfs, p) \in BOOLEAN
          /\ ~(is_file(vfs, p) /\ is_dir(vfs, p))
          /\ ~exists(vfs, p) => (~is_file(vfs, p) /\ ~is_dir(vfs, p))
          /\ PathHolders(vfs, p) = {} => (~exists(vfs, p) /\ ~is_file(vfs, p) /\ ~is_dir(vfs, p))

\* is_file answered false on an overlay whose only backend has lost its
\* root, so that every probe of it fails
C10_Witness ==
    /\ last.op = "is_file" /\ last.res.val = FALSE
    /\ last.path = CONFIG_NAME
    /\ Len(vfs) = 1 /\ vfs[1].nodes[<<>>].t = "absent"

\* result r with its serving position moved back by n places
Shifted(r, n) == IF r.ok THEN [r EXCEPT !.root = @ + n] ELSE r

\* every read-style call that resolved p on overlay ov gives, on overlay
\* ov2, the same result from the same backend, now n places further back
KeepsResolved(ov, ov2, p, n) ==
    /\ open(ov, p).res.ok => open(ov2, p).res = Shifted(open(ov, p).res, n)
    /\ O_metadata(ov, p).res.ok => O_metadata(ov2, p).res = Shifted(O_metadata(ov, p).res, n)
    /\ read_dir(ov, p).res.ok => read_dir(ov2, p).res = Shifted(read_dir(ov, p).res, n)
    /\ exists(ov, p) => exists(ov2, p)
    /\ is_file(ov2, p) = IF O_metadata(ov, p).res.ok THEN is_file(ov, p) ELSE is_file(ov2, p)
    /\ is_dir(ov2, p) = IF O_metadata(ov, p).res.ok THEN is_dir(ov, p) ELSE is_dir(ov2, p)

\* a read-style call that backend i of overlay ov serves for p was served
\* by no backend of overlay old
OnlyUnresolved(old, ov, p, i) ==
    /\ open(ov, p).res.root = i => ~open(old, p).res.ok
    /\ O_metadata(ov, p).res.root = i => ~O_metadata(old, p).res.ok
    /\ read_dir(ov, p).res.root = i => ~read_dir(old, p).res.ok

\* C11: mount and add_zip_file append the new backend after all existing
\* ones (a failed add_zip_file appends nothing): every path that resolved
\* before still resolves to the same backend with the same result, and only
\* paths that resolved in no backend before resolve to the new backend.
C11_MountsAreLast ==
    [][last'.op \in {"mount", "add_zip_file"}
       => /\ IF last'.res.ok
             THEN Len(vfs') = Len(vfs) + 1 /\ SubSeq(vfs', 1, Len(vfs)) = vfs
             ELSE vfs' = vfs
          /\ last'.op = "mount" => last'.res.ok /\ vfs'[Len(vfs')] = PhysicalFS(TreeA, last'.arg)
          /\ \A p \in Paths :
                /\ KeepsResolved(vfs, vfs', p, 0)
                /\ OnlyUnresolved(vfs, vfs', p, Len(vfs) + 1)]_vars

\* a directory mounted behind another backend: a path both hold still
\* opens from the front one, a path only the mounted one holds now opens
\* from it
C11_Witness ==
    /\ last.op = "mount" /\ last.res.ok
    /\ Len(vfs) = 2
    /\ \E p \in last.desc : ContainsFile(vfs[2], p) /\ open(vfs, p).res.root = 1
    /\ \E q \in Paths \ last.desc : open(vfs, q).res.root = 2

\* C12 as stated, read in its weakest sense: after push_front(b), a
\* read-style call (open, exists, metadata, read_dir) that resolves a path
\* contained in b resolves it to b, never to another backend, and paths not
\* contained in b resolve as before.
C12_Original ==
    [][last'.op = "push_front"
       => \A p \in Paths :
             IF ContainsPath(vfs'[1], p)
             THEN /\ open(vfs', p).res.ok => open(vfs', p).res.root = 1
                  /\ exists(vfs', p)
                  /\ O_metadata(vfs', p).res.root = 1
                  /\ read_dir(vfs', p).res.ok => read_dir(vfs', p).res.root = 1
             ELSE KeepsResolved(vfs, vfs', p, 1)]_vars

\* C12, amended: after push_front(b), open(p) resolves to b for every p that
\* b contains as a file, read_dir(p) for every p that b contains as a
\* directory, and exists(p) and metadata(p) for every p that b contains;
\* every other read-style call gives the result it gave before, from the
\* same backend.
C12_PushFront ==
    [][last'.op = "push_front"
       => /\ vfs' = push_front(vfs, last'.arg)
          /\ \A p \in Paths :
                /\ open(vfs', p).res =
                      IF ContainsFile(vfs'[1], p)
                      THEN Ok(1, vfs'[1].nodes[p.comps].data, "none")
                      ELSE Shifted(open(vfs, p).res, 1)
                /\ read_dir(vfs', p).res =
                      IF NodeAt(vfs'[1], p).t = "dir"
                      THEN [B_read_dir(vfs'[1], p).res EXCEPT !.root = 1]
                      ELSE Shifted(read_dir(vfs, p).res, 1)
                /\ O_metadata(vfs', p).res =
                      IF NodeAt(vfs'[1], p).t # "absent"
                      THEN Ok(1, <<>>, Metadata(NodeAt(vfs'[1], p)))
                      ELSE Shifted(O_metadata(vfs, p).res, 1)
                /\ exists(vfs', p) = (NodeAt(vfs'[1], p).t # "absent" \/ exists(vfs, p))]_vars

\* a backend pushed in front of another: a path that opened from the old
\* backend now opens from the new one, and a path the old backend did not
\* open does too
C12_Witness ==
    /\ last.op = "push_front"
    /\ Len(vfs) = 2
    /\ \E p \in last.desc : ContainsFile(vfs[1], p) /\ open(vfs, p).res.root = 1
    /\ \E q \in Paths \ last.desc : ContainsFile(vfs[1], q) /\ open(vfs, q).res.root = 1

\* Where Filesystem::new puts each store in environment e (0: not mounted).
ZipAt(e) == IF e.zip.exists THEN 2 ELSE 0

UserDataAt(e) == IF e.dirs THEN (IF e.zip.exists THEN 3 ELSE 2) ELSE 0

UserConfigAt(e) == IF e.dirs THEN UserDataAt(e) + 1 ELSE 0

\* backend b is the directory store over tree nodes / the archive over it
IsDirStore(b, nodes) == b.kind = "phys" /\ b.nodes = nodes

IsArchive(b, nodes) == b.kind = "zip" /\ b.nodes = nodes

\* C13 as stated: the default overlay is, front to back, the resources
\* directory, the archive only if the file exists, the user-data directory
\* and the user-config directory; without the archive file construction
\* succeeds with the others in the same order.
C13_Original ==
    /\ last.op = "new" /\ ~env.zip.exists => last.res.ok
    /\ last.op = "new" /\ last.res.ok
       => /\ Len(vfs) = IF env.zip.exists THEN 4 ELSE 3
          /\ IsDirStore(vfs[1], env.resources)
          /\ env.zip.exists => IsArchive(vfs[2], env.zip.nodes)
          /\ IsDirStore(vfs[Len(vfs) - 1], env.user_data)
          /\ IsDirStore(vfs[Len(vfs)], env.user_config)

\* C13, amended: Filesystem::new builds the backend list, front to back, as
\* the resources directory, then the archive only if that file exists, then,
\* only if the platform's project directories resolve, the user-data
\* directory and the user-config directory; lookups search them in that
\* order; without the archive file it is omitted and construction succeeds
\* with the other backends in the same relative order.
C13_DefaultOrder ==
    /\ last.op = "new" => (last.res.ok <=> (env.zip.exists => env.zip.valid))
    /\ last.op = "new" /\ last.res.ok
       => /\ Len(vfs) = 1 + (IF env.zip.exists THEN 1 ELSE 0) + (IF env.dirs THEN 2 ELSE 0)
          /\ IsDirStore(vfs[1], env.resources)
          /\ env.zip.exists => IsArchive(vfs[ZipAt(env)], env.zip.nodes)
          /\ ~env.zip.exists => \A i \in 1..Len(vfs) : vfs[i].kind = "phys"
          /\ env.dirs => /\ IsDirStore(vfs[UserDataAt(env)], env.user_data)
                         /\ IsDirStore(vfs[UserConfigAt(env)], env.user_config)
          /\ \A p \in Paths :
                /\ exists(vfs, p) <=> PathHolders(vfs, p) # {}
                /\ open(vfs, p).res.ok => open(vfs, p).res.root = Min(FileHolders(vfs, p))

\* all four stores found and mounted
C13_Witness ==
    /\ last.op = "new" /\ last.res.ok
    /\ env.zip.exists /\ env.dirs
    /\ Len(vfs) = 4
    /\ vfs[2].kind = "zip"

\* C14 as stated: in the default overlay every directory store is read-write
\* and only the archive is readonly; the resources directory receives a
\* create/mkdir of a path absent from every backend.
C14_Original ==
    Built
    => /\ \A i \in 1..Len(vfs) : vfs[i].readonly <=> vfs[i].kind = "zip"
       /\ (last.op \in {"create", "create_dir"} /\ last.res.ok /\ last.had = {})
          => last.res.root = 1

\* C14, amended: in the default overlay the resources directory, the archive
\* and the user-data directory are readonly and only the user-config
\* directory is read-write; the user-config directory is the backend that
\* receives every create/mkdir that succeeds, and where it is not mounted
\* every create/mkdir is refused for want of write permission.
C14_DefaultFlags ==
    Built
    => /\ \A i \in 1..Len(vfs) : vfs[i].readonly <=> i # UserConfigAt(env)
       /\ (last.op \in {"create", "create_dir"} /\ last.res.ok)
          => last.res.root = UserConfigAt(env) /\ last.res.root = Len(vfs)
       /\ (last.op \in {"create", "create_dir"} /\ ~env.dirs)
          => ~last.res.ok /\ last.res.err = "PermissionDenied"

\* a file that no backend held created in the default overlay of four
\* stores: it lands in the user-config directory, the last one
C14_Witness ==
    /\ last.op = "create" /\ last.res.ok /\ last.had = {}
    /\ Len(vfs) = 4
    /\ last.res.root = 4
    /\ ContainsFile(vfs[4], last.path)
    /\ ~ContainsPath(vfs[1], last.path)

\* C15 as stated: every Filesystem returned by Filesystem::new contains the
\* writable user-config store, with or without the archive and with or
\* without a platform-directory resolver.
C15_Original ==
    Built => \E i \in 1..Len(vfs) : vfs[i].kind = "phys" /\ ~vfs[i].readonly

\* C15, amended: every Filesystem returned by Filesystem::new where the
\* platform's project directories resolve contains the writable user-config
\* store as its last backend, with or without the archive, and a create or
\* write_config that succeeds writes there; where they do not resolve the
\* overlay has no writable backend and create and write_config fail.
C15_WritableConfig ==
    /\ (Built /\ env.dirs)
       => /\ vfs[Len(vfs)].kind = "phys" /\ ~vfs[Len(vfs)].readonly
          /\ last.op = "new" => vfs[Len(vfs)].nodes = env.user_config
          /\ (last.op \in {"create", "write_config"} /\ last.res.ok)
             => last.res.root = Len(vfs)
    /\ (Built /\ ~env.dirs)
       => /\ \A i \in 1..Len(vfs) : vfs[i].readonly
          /\ last.op \in {"create", "write_config"} => ~last.res.ok

\* a configuration that no backend held saved in a default overlay without
\* the archive
C15_Witness ==
    /\ last.op = "write_config" /\ last.res.ok /\ last.had = {}
    /\ ~env.zip.exists /\ env.dirs
    /\ last.res.root = Len(vfs) /\ Len(vfs) = 3
    /\ is_file(vfs, CONFIG_NAME)

\* the threads inside the lock
Inside == {t \in Threads : threads[t].pc \in {"pushing", "ran"}}

\* C16: mounting is atomic with respect to the other threads' calls: only
\* one thread at a time is inside the lock; every overlay-level call works
\* on a list with no half-written slot, which is the list at the call's
\* start extended by the mounts completed since (the overlay before or after
\* each mount), and returns what that list gives; a mount appends its
\* backend to the list it found, whole.
C16_MountAtomic ==
    /\ Cardinality(Inside) <= 1
    /\ \A t \in Inside : lock = t
    /\ Whole(vfs) \/ \E t \in Threads : threads[t].pc = "pushing"
    /\ \A t \in Threads :
          /\ (threads[t].pc = "ran" /\ threads[t].op \in CallOps)
             => /\ Whole(threads[t].seen)
                /\ IsPrefix(threads[t].from, threads[t].seen)
                /\ threads[t].seen = vfs
                /\ threads[t].res = OverlayCall(threads[t].op, vfs, threads[t].path)
          /\ (threads[t].pc = "ran" /\ threads[t].op \in {"mount", "add_zip_file"})
             => /\ threads[t].res.ok
                /\ Whole(vfs)
                /\ Len(vfs) = Len(threads[t].seen) + 1
                /\ IsPrefix(threads[t].seen, vfs)
                /\ IsPrefix(threads[t].from, threads[t].seen)

\* a look-up begun before a mount and run after it: it opens a file from
\* the backend mounted meanwhile, which the overlay it began on did not have
C16_Witness ==
    \E t \in Threads :
        /\ threads[t].pc = "ran" /\ threads[t].op = "open"
        /\ Len(threads[t].seen) = Len(threads[t].from) + 1
        /\ threads[t].res.ok
        /\ threads[t].res.root = Len(threads[t].seen)
        /\ ~OverlayCall("open", threads[t].from, threads[t].path).ok


\* ---- C17
\* the residual update time of the timer
Residual == time.residual_update_dt

\* which call on the timer was last made and the timer it left: every step
\* of a timer call that does anything changes one of the two
timing == <<last.op, time>>

\* C17: a check_update_time(fps) that returns true lowers the residual
\* update time by exactly the target frame duration and one that returns
\* false leaves it alone; with 45 ms accumulated and a 40 ms target it
\* returns true and 5 ms remain; remaining_update_time() returns the
\* residual and changes nothing.
C17_CheckUpdateTimeEffect ==
    [][/\ last'.op = "check_update_time" =>
            /\ last'.res.val = TRUE => Residual' = Residual - fps_as_duration(last'.arg)
            /\ last'.res.val = FALSE => Residual' = Residual
            /\ (Residual = from_millis(45) /\ fps_as_duration(last'.arg) = from_millis(40)) =>
                   /\ last'.res.val = TRUE
                   /\ remaining_update_time(time') = from_millis(5)
       /\ last'.op = "remaining_update_time" =>
            /\ last'.res.val = Residual
            /\ UNCHANGED <<vfs, handle, trail, env, lock, threads, time, fss, arcs, log>>]_timing

\* 45 ms had accumulated, check_update_time(25) answered true and 5 ms remain
C17_Witness ==
    /\ last.op = "check_update_time"
    /\ last.arg = 25
    /\ last.res.val = TRUE
    /\ trail.data = <<from_millis(40), from_millis(5)>>
    /\ Residual = from_millis(5)

\* ---- C18
\* C18 as stated: check_update_time(fps) returns true exactly when the
\* accumulated time is at least the target frame duration, equality
\* included.
C18_Original ==
    [][last'.op = "check_update_time" =>
           (last'.res.val = TRUE <=> Residual >= fps_as_duration(last'.arg))]_timing

\* ---- C19
\* the last k items of q
LastOf(q, k) == SubSeq(q, Len(q) - k + 1, Len(q))

\* the mean of the durations of the most recent min(n, TIME_LOG_FRAMES)
\* ticks, the fraction of a nanosecond dropped
RecentMean(durations) ==
    LET k == IF Len(durations) < TIME_LOG_FRAMES THEN Len(durations) ELSE TIME_LOG_FRAMES
    IN  SumSeq(LastOf(durations, k)) \div k

\* C19 as stated: after n >= 1 ticks average_delta() is the mean of the
\* durations of the most recent min(n, TIME_LOG_FRAMES) ticks.
C19_Original ==
    (last.op = "average_delta" /\ Len(trail.data) >= 1) =>
        last.res.val = RecentMean(trail.data)

\* ---- C20
\* the durations the timer has recorded and its frame count
Recorded == <<time.frame_durations, time.frame_count>>

\* C20: after n >= 1 ticks delta() returns the duration of the most recent
\* tick and ticks() returns n; delta(), ticks(), average_delta() and
\* check_update_time() change neither the frame count nor the recorded
\* durations.
C20_DeltaAndTicks ==
    [][/\ (last'.op = "delta" /\ Len(trail.data) >= 1) =>
            last'.res.val = trail.data[Len(trail.data)]
       /\ (last'.op = "ticks" /\ Len(trail.data) >= 1) =>
            last'.res.val = Len(trail.data)
       /\ last'.op \in {"delta", "ticks", "average_delta", "check_update_time"} =>
            Recorded' = Recorded]_timing

\* more ticks than the log has slots, the last longer than the one before,
\* and delta() returned the last
C20_Witness ==
    /\ last.op = "delta"
    /\ Len(trail.data) > TIME_LOG_FRAMES
    /\ trail.data[Len(trail.data)] = from_millis(40)
    /\ trail.data[Len(trail.data) - 1] = from_millis(5)
    /\ last.res.val = from_millis(40)


\* ---- C21
\* the positions of the writable backends that contain p
Eligible(ov, p) == {i \in 1..Len(ov) : ~ov[i].readonly /\ ContainsPath(ov[i], p)}

\* ov2 is ov with p removed from backend i and nothing else changed
RemovedAt(ov, ov2, p, i) ==
    /\ Len(ov2) = Len(ov)
    /\ \A j \in 1..Len(ov) : j # i => ov2[j] = ov[j]
    /\ ov2[i].kind = ov[i].kind /\ ov2[i].readonly = ov[i].readonly
    /\ ov2[i].nodes[p.comps].t = "absent"
    /\ \A k \in Keys : k # p.comps => ov2[i].nodes[k] = ov[i].nodes[k]

\* backend b holds p as a directory with something in it
NonEmptyDir(b, p) ==
    ContainsDir(b, p) /\ \E c \in ChildrenOf(p.comps) : b.nodes[c].t # "absent"

\* C21 as stated: delete(p) removes p from the first writable backend that
\* contains p and changes nothing else; with no such backend it fails and
\* the overlay is unchanged.
C21_Original ==
    [][last'.op = "delete" =>
           LET p == last'.path
               E == Eligible(vfs, p)
           IN  IF E # {}
               THEN last'.res.ok /\ RemovedAt(vfs, vfs', p, Min(E))
               ELSE ~last'.res.ok /\ vfs' = vfs]_vars

\* C21, amended: delete(p) acts on the first writable backend that contains
\* p: unless p is a directory with something in it there, p is removed from
\* that backend and nothing else changes; if it is, or if no writable
\* backend contains p, delete fails and the overlay is unchanged.
C21_DeleteFrame ==
    [][last'.op = "delete" =>
           LET p == last'.path
               E == Eligible(vfs, p)
           IN  IF E # {} /\ ~NonEmptyDir(vfs[Min(E)], p)
               THEN /\ last'.res.ok
                    /\ last'.res.root = Min(E)
                    /\ RemovedAt(vfs, vfs', p, Min(E))
               ELSE ~last'.res.ok /\ vfs' = vfs]_vars

\* a path held by a readonly backend in front and a writable one behind it
\* was deleted: the writable copy is gone, the readonly one remains
C21_Witness ==
    /\ last.op = "delete" /\ last.res.ok
    /\ last.res.root = 2
    /\ last.had = {1, 2}
    /\ ContainsPath(vfs[1], last.path)
    /\ ~ContainsPath(vfs[2], last.path)


\* ---- C22
\* C22 as stated: in every interleaving, a read_config that finds
\* "/conf.toml" a file in no backend at the moment it tries to read it (the
\* overlay its last statement ran on) returns ConfigError.
C22_Original ==
    \A t \in Threads :
        (/\ threads[t].pc = "done"
         /\ threads[t].op = "read_config"
         /\ FileHolders(threads[t].seen, CONFIG_NAME) = {})
        => (~threads[t].res.ok /\ threads[t].res.err = "ConfigError")


\* ---- C23
\* the threads in the middle of a method
Started == {t \in Threads : threads[t].pc \notin {"idle", "done", "panicked"}}

\* no thread asks for the lock while holding it, and a thread outside its
\* locked statements (between statements, returned, or in no call) does not
\* hold it
LockDiscipline ==
    \A t \in Threads :
        /\ threads[t].pc = "wait" => lock # t
        /\ threads[t].pc \in {"idle", "free", "done"} => lock # t
        /\ threads[t].pc \in {"ran", "held"} => lock = t

Late == {t \in Threads : threads[t].arg.late}

\* C24 as stated: once the lock is poisoned, no method called later returns
\* a value or an error or gets to the overlay: it waits for the lock, is on
\* its way to it, or has panicked.
C24_Original ==
    \A t \in Late : threads[t].pc \in {"wait", "free", "panicked"}

\* thread t has returned from a method that ends before it reaches the
\* lock: add_zip_file given bytes that are no archive, or user_config_dir
ReturnedEarly(t) ==
    /\ threads[t].pc = "done"
    /\ threads[t].seen = <<>>
    /\ \/ threads[t].op = "user_config_dir"
       \/ /\ threads[t].op = "add_zip_file"
          /\ ~threads[t].arg.input.reader.valid
          /\ ~threads[t].res.ok

\* C24, amended: a poisoned lock stays poisoned; a method called after the
\* poisoning never gets to the overlay, no step of it changes the overlay,
\* and it panics when it asks for the lock; the only such calls that
\* return are those that end before they
\* ask for it: add_zip_file given bytes that are no archive returns its
\* error and the root-path accessors return their path.
C24_PoisonFatal ==
    /\ [](\A t \in Late : threads[t].pc \in {"wait", "free", "panicked"} \/ ReturnedEarly(t))
    /\ [][Poisoned(lock) =>
             /\ Poisoned(lock')
             /\ vfs' # vfs => \A t \in Late : threads'[t].pc = threads[t].pc]_<<lock, vfs>>

\* a delete called after another thread panicked inside the lock has
\* panicked in its turn, the overlay as it was
C24_Witness ==
    \E t \in Late :
        /\ threads[t].pc = "panicked"
        /\ threads[t].op = "delete"
        /\ Poisoned(lock)
        /\ FileHolders(vfs, CONFIG_NAME) # {}


\* ---- C25
\* C25: every clone points to the overlay of the original and holds the
\* original's four root paths; cloning makes no overlay and leaves the
\* backend list as it is; what exists answers through one value is what
\* the overlay of every other value holds, so a backend mounted or a file
\* created or deleted through one is seen through the others.
C25_ClonesShare ==
    /\ [](/\ Len(arcs) = 1
          /\ \A i \in 1..Len(fss) : fss[i] = fss[1]
          /\ last.op = "exists" =>
                \A j \in 1..Len(fss) : last.res.val = exists(OverlayOf(fss[j]), last.path)
          /\ (last.op = "exists" /\ trail.path = last.path /\ trail.kind = "create")
                => last.res.val = TRUE
          /\ (last.op = "exists" /\ trail.path = last.path /\ trail.kind = "delete"
              /\ Cardinality(trail.had) = 1)
                => last.res.val = FALSE)
    /\ [][Len(fss') > Len(fss) =>
             /\ arcs' = arcs
             /\ fss' = Append(fss, fss[1])]_<<fss, arcs>>

\* a file that no backend held was created through the second clone and
\* exists, asked through the original, finds it
C25_Witness ==
    /\ Len(fss) = 3
    /\ last.op = "exists" /\ last.arg = 1 /\ last.res.val = TRUE
    /\ trail.kind = "create" /\ trail.root = 3 /\ trail.had = {}
    /\ trail.path = last.path

\* ---------------------------------------------------------------- C26
\* the backend at position i of the list before is the one at position i of
\* the list after: same kind, same flag, and the same archive when it is one
SameBackend(b, c) ==
    /\ c.kind = b.kind
    /\ c.readonly = b.readonly
    /\ (b.kind = "zip" => c = b)

Extends(op) == op \in {"mount", "add_zip_file"}

\* C26: a successful Filesystem::new leaves a non-empty backend list, and from
\* then on no facade operation shortens it, reorders it or replaces a backend:
\* the list before is a prefix of the list after; only mount and add_zip_file
\* lengthen it, by exactly one backend, and only when they succeed.
C26_ShapeInvariant ==
    /\ [](last.op = "new" /\ last.res.ok => Len(vfs) >= 1)
    /\ [][Built =>
            /\ Len(vfs') >= Len(vfs)
            /\ \A i \in 1..Len(vfs) : SameBackend(vfs[i], vfs'[i])
            /\ (Len(vfs') > Len(vfs) =>
                    /\ Len(vfs') = Len(vfs) + 1
                    /\ Extends(last'.op) /\ last'.res.ok)
            /\ (Extends(last'.op) /\ last.op = "none" =>
                    Len(vfs') = Len(vfs) + (IF last'.res.ok THEN 1 ELSE 0))
       ]_<<last.op, vfs>>

\* after construction a mount has lengthened the list, and a later delete
\* succeeded without shortening it
C26_Witness ==
    /\ Len(vfs) = 2
    /\ vfs[2].kind = "phys" /\ ~vfs[2].readonly
    /\ last.op = "delete" /\ last.res.ok

\* ---------------------------------------------------------------- C27
\* C27: while every check_update_time call asks the same rate, the residual
\* update time is the sum of the tick durations less the target frame
\* duration once for every call that returned true, and it is never below
\* zero.
C27_TimeConservation ==
    /\ Residual >= 0
    /\ \A fps \in Rates :
           trail.had \subseteq {fps} =>
               Residual = SumSeq(trail.data) - trail.root * fps_as_duration(fps)

\* three ticks, 85 ms in all, and two true returns at 25 fps: 5 ms are left
C27_Witness ==
    /\ trail.had = {25}
    /\ trail.root = 2
    /\ Len(trail.data) = 3
    /\ SumSeq(trail.data) = from_millis(85)
    /\ Residual = from_millis(5)
    /\ last.op = "check_update_time" /\ last.res.val = TRUE

\* ---------------------------------------------------------------- C28
\* the loop's condition has just come out false
LoopOver == trail.kind = "false"

\* C28 as stated: for any rate above zero the loop over check_update_time
\* ends within the frame: after finitely many true returns a call returns
\* false (or the next tick comes); then the residual is at most one target
\* frame duration and further calls return false until the next tick.
C28_Original ==
    /\ \A n \in 0..MaxTicks :
           (time.frame_count = n) ~> (time.frame_count # n \/ LoopOver)
    /\ [](LoopOver => \A fps \in trail.had : Residual <= fps_as_duration(fps))
    /\ [][(LoopOver /\ trail'.kind # "tick") => trail'.kind = "false"]_looping

\* ---------------------------------------------------------------- C29
\* how many times x occurs in q
Count(q, x) == Cardinality({i \in 1..Len(q) : q[i] = x})

\* q and r hold the same items, each as many times
SameItems(q, r) == \A x \in FrameTimes \cup {InitVal} : Count(q, x) = Count(r, x)

\* the capacity of the buffer
Capacity == Len(log.contents)

\* the oldest item the buffer stores after the pushes in items: a value it
\* was filled with while one is left, then the oldest of the last N pushed
Oldest(items) ==
    IF Len(items) < Capacity THEN InitVal ELSE items[Len(items) - Capacity + 1]

\* C29: for a buffer of capacity N >= 1 and any sequence of k pushes, head
\* stays within 0..N-1; each push overwrites one slot, the one holding the
\* oldest stored item, and leaves the others; latest() returns the item
\* pushed last; once k >= N the buffer holds exactly the N most recently
\* pushed items.
C29_KeepsLastN ==
    /\ [](log.head \in 0..(Capacity - 1))
    /\ [](Len(trail.data) >= 1 => LogBuffer_latest(log) = trail.data[Len(trail.data)])
    /\ [](Len(trail.data) >= Capacity =>
              /\ LogBuffer_contents(log) = log.contents
              /\ SameItems(log.contents, LastOf(trail.data, Capacity)))
    /\ [][\E slot \in 1..Capacity :
              /\ log.contents[slot] = Oldest(trail.data)
              /\ \A i \in 1..Capacity : i # slot => log'.contents[i] = log.contents[i]
              /\ log'.contents[slot] = trail'.data[Len(trail'.data)]
              /\ slot = log'.head + 1
       ]_log

\* five pushes into a buffer of three: the last three are held, the first
\* two are gone
C29_Witness ==
    /\ Capacity = 3
    /\ trail.data = <<from_millis(5), from_millis(5), from_millis(40), from_millis(40), from_millis(40)>>
    /\ log.contents = <<from_millis(40), from_millis(40), from_millis(40)>>
    /\ log.head = 2

=============================================================================
